---- MODULE Spec2Model ----
(***************************************************************************)
(* A model of the processing-pipeline support code of the document-intake  *)
(* application: the retry / fallback executor (withRetry, logError,        *)
(* createFallbackHandler) and the progress tracker (ProgressTracker,       *)
(* createProcessingSession), over the shared processing_logs table.        *)
(*                                                                         *)
(* Every `await` of the source is a step boundary.  The outcomes of the    *)
(* external collaborators (the authentication lookup, the table insert,    *)
(* the table query, the wrapped operations) are chosen nondeterministically*)
(* at the step where the awaited promise settles.                          *)
(***************************************************************************)
EXTENDS Integers, Sequences, FiniteSets, TLC

VARIABLES
    logs,      \* the processing_logs table, in insertion (timestamp) order
    retry,     \* the one running call of withRetry
    fb,        \* the one running call of the callable made by createFallbackHandler
    cache,     \* ProgressTracker.progressCache
    tasks,     \* the running tracker operations (one async call per task)
    track,     \* bookkeeping about the tracker operations started so far
    sec,       \* the one running call of logComplianceEvent / validateDocumentSecurity
    san,       \* the one running export: a value and its sanitized forms
    ui,        \* the document queue: entries, notices and the processing tasks started
    fn         \* the one running call of the process-document function

vars == <<logs, retry, fb, cache, tasks, track, sec, san, ui, fn>>

----------------------------------------------------------------------------
(* Bounds of the model *)

\* largest maxAttempts a call of withRetry is given
MaxAttemptsBound == 3
\* how many tracker operations are started after the page has loaded
MaxOps == 2

(* Program constants: defaultRetryConfig *)
DefaultMaxAttempts == 3
BaseDelay == 1000
MaxDelay == 10000
BackoffMultiplier == 2

----------------------------------------------------------------------------
(* Values *)

Undefined == "undefined"

\* what an invocation of a wrapped operation throws / resolves to
Errors == {"network timeout", "validation failed", "rate limit exceeded"}
Results == {"r1", "r2"}

\* supabase.auth.getUser(): a user, no user, or a thrown failure
AuthOutcomes == {"user", "nouser", "throw"}
\* supabase.from(..).insert(..): stored, an { error } result, or a thrown failure
InsertOutcomes == {"ok", "error", "throw"}
UserId == "u1"

\* Math.random() * 1000 lies in [0, 1000): its two extremes as whole numbers
Jitters == {0, 999}

Min(a, b) == IF a <= b THEN a ELSE b

RECURSIVE Pow(_, _)
Pow(b, e) == IF e <= 0 THEN 1 ELSE b * Pow(b, e - 1)

Last(s) == s[Len(s)]

----------------------------------------------------------------------------
(* logError (errorHandling) *)

\* the row logError inserts for an entry, as seen by the given user lookup
ErrorRow(entry, auth) ==
    [ action      |-> "error_occurred",
      user_id     |-> IF auth = "user" THEN UserId ELSE "anonymous",
      document_id |-> Undefined,
      details     |-> [ error_message |-> entry.error,
                        attempt       |-> entry.attempt,
                        max_attempts  |-> entry.maxAttempts,
                        context       |-> entry.context ] ]

\* the rows one call of logError adds to processing_logs: the lookup and the
\* insert are inside one try block, so a throw of either leaves no row, and an
\* { error } result of the insert is not looked at
LogErrorRows(entry, auth, ins) ==
    IF auth = "throw" THEN << >>
    ELSE IF ins = "ok" THEN << ErrorRow(entry, auth) >>
    ELSE << >>

\* whether the call of logError rejects: its catch block swallows every throw
LogErrorRejects(auth, ins) == FALSE

----------------------------------------------------------------------------
(* withRetry *)

\* the maxAttempts values a call is given (config overrides the default)
RetryAttemptsSet == (0 - 1) .. MaxAttemptsBound

RetryInit ==
    retry = [ pc          |-> "start",
              maxAttempts |-> DefaultMaxAttempts,
              attempt     |-> 1,
              hist        |-> << >>,
              lastError   |-> Undefined,
              result      |-> Undefined,
              thrown      |-> Undefined,
              logCalls    |-> << >>,
              sleeps      |-> << >> ]

\* Math.min(baseDelay * Math.pow(backoffMultiplier, attempt - 1), maxDelay)
Delay(attempt) == Min(BaseDelay * Pow(BackoffMultiplier, attempt - 1), MaxDelay)

\* the error kept in lastError when an invocation throws e
CatchAssignFirst(old, e) == IF old = Undefined THEN e ELSE old
CatchAssign(old, e) == e

\* the for loop's condition
LoopContinuesAtLeastOnce(attempt, maxAttempts) == attempt <= maxAttempts \/ attempt = 1
LoopContinuesOffByOne(attempt, maxAttempts) == attempt < maxAttempts
LoopContinues(attempt, maxAttempts) == attempt <= maxAttempts

\* if (attempt === finalConfig.maxAttempts) break, after the failure with
\* `error` was logged
BreaksNever(attempt, maxAttempts, error) == FALSE
BreaksOnValidationFailure(attempt, maxAttempts, error) ==
    attempt = maxAttempts \/ error = "validation failed"
Breaks(attempt, maxAttempts, error) == attempt = maxAttempts

\* the call: finalConfig = { ...defaultRetryConfig, ...config }, attempt = 1,
\* and the first test of the loop condition
withRetryCall ==
    /\ retry.pc = "start"
    /\ \E m \in RetryAttemptsSet :
         retry' = [ retry EXCEPT
                      !.maxAttempts = m,
                      !.pc = IF LoopContinues(1, m) THEN "call" ELSE "rejected",
                      !.thrown = retry.lastError ]
    /\ UNCHANGED <<logs, fb, cache, tasks, track, sec, san, ui, fn>>

\* return await operation(): the invocation resolves (withRetry returns its
\* result) or throws (lastError = error, then logError is called)
withRetryInvoke ==
    /\ retry.pc = "call"
    /\ \/ \E v \in Results :
            retry' = [ retry EXCEPT
                         !.hist = Append(@, [ok |-> TRUE, val |-> v]),
                         !.result = v,
                         !.pc = "resolved" ]
       \/ \E e \in Errors :
            retry' = [ retry EXCEPT
                         !.hist = Append(@, [ok |-> FALSE, val |-> e]),
                         !.lastError = CatchAssign(@, e),
                         !.pc = "log" ]
    /\ UNCHANGED <<logs, fb, cache, tasks, track, sec, san, ui, fn>>

\* await logError({...}) settles; then `if (attempt === maxAttempts) break`
\* and the throw after the loop, or the backoff sleep starts
withRetryLog ==
    /\ retry.pc = "log"
    /\ \E auth \in AuthOutcomes, ins \in InsertOutcomes :
         LET entry == [ error       |-> retry.lastError,
                        attempt     |-> retry.attempt,
                        maxAttempts |-> retry.maxAttempts,
                        context     |-> "operation" ]
         IN /\ logs' = logs \o LogErrorRows(entry, auth, ins)
            /\ IF LogErrorRejects(auth, ins)
               THEN retry' = [ retry EXCEPT
                                 !.logCalls = Append(@, [attempt |-> entry.attempt,
                                                         maxAttempts |-> entry.maxAttempts]),
                                 !.thrown = "log failure",
                                 !.pc = "rejected" ]
               ELSE IF Breaks(retry.attempt, retry.maxAttempts, retry.lastError)
               THEN retry' = [ retry EXCEPT
                                 !.logCalls = Append(@, [attempt |-> entry.attempt,
                                                         maxAttempts |-> entry.maxAttempts]),
                                 !.thrown = retry.lastError,
                                 !.pc = "rejected" ]
               ELSE retry' = [ retry EXCEPT
                                 !.logCalls = Append(@, [attempt |-> entry.attempt,
                                                         maxAttempts |-> entry.maxAttempts]),
                                 !.pc = "sleep" ]
    /\ UNCHANGED <<fb, cache, tasks, track, sec, san, ui, fn>>

\* the setTimeout promise resolves; attempt++ and the loop condition
withRetrySleep ==
    /\ retry.pc = "sleep"
    /\ \E j \in Jitters :
         retry' = [ retry EXCEPT
                      !.sleeps = Append(@, Delay(retry.attempt) + j),
                      !.attempt = @ + 1,
                      !.thrown = IF LoopContinues(retry.attempt + 1, retry.maxAttempts)
                                 THEN @ ELSE retry.lastError,
                      !.pc = IF LoopContinues(retry.attempt + 1, retry.maxAttempts)
                             THEN "call" ELSE "rejected" ]
    /\ UNCHANGED <<logs, fb, cache, tasks, track, sec, san, ui, fn>>

----------------------------------------------------------------------------
(* createFallbackHandler: one call of the returned callable *)

\* an operation that has not been invoked, or has not settled yet
NotSettled == [ok |-> FALSE, val |-> Undefined]

FallbackInit ==
    fb = [ pc            |-> "start",
           primary       |-> NotSettled,  \* what primaryOperation() settled to
           fallback      |-> NotSettled,  \* what fallbackOperation() settled to
           primaryCalls  |-> 0,
           fallbackCalls |-> 0,
           result        |-> Undefined,
           thrown        |-> Undefined,
           logCalls      |-> << >> ]

\* the error the callable rejects with when both operations threw
RethrowPrimary(primaryError, fallbackError) == primaryError
Rethrow(primaryError, fallbackError) == fallbackError

\* whether fallbackOperation is invoked once primaryOperation has settled
NeedsFallbackAlways(primaryOk) == TRUE
NeedsFallback(primaryOk) == ~primaryOk

\* the callable is called: primaryOperation() is invoked
fallbackHandlerCall ==
    /\ fb.pc = "start"
    /\ fb' = [ fb EXCEPT !.primaryCalls = @ + 1, !.pc = "primary" ]
    /\ UNCHANGED <<logs, retry, cache, tasks, track, sec, san, ui, fn>>

\* return await primaryOperation() settles
fallbackHandlerPrimary ==
    /\ fb.pc = "primary"
    /\ \/ \E v \in Results :
            fb' = [ fb EXCEPT
                      !.primary = [ok |-> TRUE, val |-> v],
                      !.result = v,
                      !.pc = IF NeedsFallback(TRUE) THEN "logPrimary" ELSE "resolved" ]
       \/ \E e \in Errors :
            fb' = [ fb EXCEPT
                      !.primary = [ok |-> FALSE, val |-> e],
                      !.pc = IF NeedsFallback(FALSE) THEN "logPrimary" ELSE "rejected",
                      !.thrown = IF NeedsFallback(FALSE) THEN @ ELSE e ]
    /\ UNCHANGED <<logs, retry, cache, tasks, track, sec, san, ui, fn>>

\* await logError({ primaryError, attempt: 1, maxAttempts: 1 }) settles, then
\* fallbackOperation() is invoked
fallbackHandlerLogPrimary ==
    /\ fb.pc = "logPrimary"
    /\ \E auth \in AuthOutcomes, ins \in InsertOutcomes :
         LET entry == [ error       |-> fb.primary.val,
                        attempt     |-> 1,
                        maxAttempts |-> 1,
                        context     |-> "Primary operation failed, using fallback" ]
         IN /\ logs' = logs \o LogErrorRows(entry, auth, ins)
            /\ IF LogErrorRejects(auth, ins)
               THEN fb' = [ fb EXCEPT
                              !.logCalls = Append(@, entry.context),
                              !.thrown = "log failure",
                              !.pc = "rejected" ]
               ELSE fb' = [ fb EXCEPT
                              !.logCalls = Append(@, entry.context),
                              !.fallbackCalls = @ + 1,
                              !.pc = "fallback" ]
    /\ UNCHANGED <<retry, cache, tasks, track, sec, san, ui, fn>>

\* return await fallbackOperation() settles
fallbackHandlerFallback ==
    /\ fb.pc = "fallback"
    /\ \/ \E v \in Results :
            fb' = [ fb EXCEPT
                      !.fallback = [ok |-> TRUE, val |-> v],
                      !.result = v,
                      !.pc = "resolved" ]
       \/ \E e \in Errors :
            fb' = [ fb EXCEPT
                      !.fallback = [ok |-> FALSE, val |-> e],
                      !.pc = "logFallback" ]
    /\ UNCHANGED <<logs, retry, cache, tasks, track, sec, san, ui, fn>>

\* await logError({ fallbackError, ... }) settles, then throw fallbackError
fallbackHandlerLogFallback ==
    /\ fb.pc = "logFallback"
    /\ \E auth \in AuthOutcomes, ins \in InsertOutcomes :
         LET entry == [ error       |-> fb.fallback.val,
                        attempt     |-> 1,
                        maxAttempts |-> 1,
                        context     |-> "Fallback operation also failed" ]
         IN /\ logs' = logs \o LogErrorRows(entry, auth, ins)
            /\ fb' = [ fb EXCEPT
                         !.logCalls = Append(@, entry.context),
                         !.thrown = IF LogErrorRejects(auth, ins)
                                    THEN "log failure"
                                    ELSE Rethrow(fb.primary.val, fb.fallback.val),
                         !.pc = "rejected" ]
    /\ UNCHANGED <<retry, cache, tasks, track, sec, san, ui, fn>>

----------------------------------------------------------------------------
(* ProgressTracker: sessions, rows *)

Tasks == {"t1", "t2"}
TaskOrder == ("t1" :> 1) @@ ("t2" :> 2)
\* the documents with a session: d1 is the upload this page load works on,
\* d2 an upload of an earlier page load, known from the table only
Docs == {"d1", "d2"}
OwnDocs == {"d1"}
\* Date.now() at the call of createProcessingSession
Times == {1}
\* `processing_${documentId}_${Date.now()}`
SessionId(doc, time) == <<"processing", doc, time>>
Ids == { SessionId(d, tm) : d \in Docs, tm \in Times }
OwnIds == { SessionId(d, tm) : d \in OwnDocs, tm \in Times }

Statuses == {"running", "paused", "completed", "failed"}
StepNames == {"file_uploaded"}
TotalStepsSet == {2, 5}

\* the fields loadProgress requires of a row's details
RequiredFields == {"id", "current_step", "total_steps", "completed_steps",
                   "status", "last_checkpoint"}

\* metadata: undefined, or a mapping (kv) from keys to values
NoMetadata == [def |-> FALSE, kv |-> << >>]
MetaArgs == { NoMetadata,
              [def |-> TRUE, kv |-> ("file_path" :> "p1")],
              [def |-> TRUE, kv |-> ("file_path" :> "p2") @@ ("document_id" :> "x")] }

\* { ...a, ...b }: the keys of both, b's value where both have the key
SpreadLeftWins(a, b) ==
    [def |-> TRUE,
     kv  |-> [k \in DOMAIN a.kv \cup DOMAIN b.kv |->
                IF k \in DOMAIN a.kv THEN a.kv[k] ELSE b.kv[k]]]
Spread(a, b) ==
    [def |-> TRUE,
     kv  |-> [k \in DOMAIN a.kv \cup DOMAIN b.kv |->
                IF k \in DOMAIN b.kv THEN b.kv[k] ELSE a.kv[k]]]

\* A session (ProcessingProgress, without its two timestamps).  A caller may
\* pass saveProgress a Partial<ProcessingProgress>: `bad` names the required
\* fields that are undefined (or NaN) in the object; such a field holds a
\* placeholder here, and is absent (or null) in the row's JSON details.
Session(doc, cur, total, done, st, cp, md, bad) ==
    [ documentId     |-> doc,
      currentStep    |-> cur,
      totalSteps     |-> total,
      completedSteps |-> done,
      status         |-> st,
      lastCheckpoint |-> cp,
      metadata       |-> md,
      bad            |-> bad ]

NullSession == Session(Undefined, Undefined, 0, 0, Undefined, Undefined, NoMetadata, {})

\* the snapshot createProcessingSession saves
InitialSessionPaused(doc, total) ==
    Session(doc, "initialized", total, 0, "paused", "initialized", NoMetadata, {})
InitialSession(doc, total) ==
    Session(doc, "initialized", total, 0, "running", "initialized", NoMetadata, {})

\* the snapshot a checkpoint continuation saves, from the loaded progress
CheckpointSnapshotNoIncrement(progress, stepName, metadata) ==
    [ progress EXCEPT
        !.currentStep = stepName,
        !.lastCheckpoint = stepName,
        !.metadata = Spread(progress.metadata, metadata),
        !.bad = @ \ {"current_step", "last_checkpoint"} ]
CheckpointSnapshotByTwo(progress, stepName, metadata) ==
    [ progress EXCEPT
        !.currentStep = stepName,
        !.completedSteps = IF "completed_steps" \in progress.bad THEN @ ELSE @ + 2,
        !.lastCheckpoint = stepName,
        !.metadata = Spread(progress.metadata, metadata),
        !.bad = @ \ {"current_step", "last_checkpoint"} ]
CheckpointSnapshotCompletes(progress, stepName, metadata) ==
    [ progress EXCEPT
        !.currentStep = stepName,
        !.completedSteps = IF "completed_steps" \in progress.bad THEN @ ELSE @ + 1,
        !.status = IF stepName = "processing_completed" THEN "completed" ELSE @,
        !.lastCheckpoint = stepName,
        !.metadata = Spread(progress.metadata, metadata),
        !.bad = @ \ {"current_step", "last_checkpoint"} ]
CheckpointSnapshot(progress, stepName, metadata) ==
    [ progress EXCEPT
        !.currentStep = stepName,
        \* undefined + 1 is NaN, which stays no number in the row
        !.completedSteps = IF "completed_steps" \in progress.bad THEN @ ELSE @ + 1,
        !.lastCheckpoint = stepName,
        !.metadata = Spread(progress.metadata, metadata),
        !.bad = @ \ {"current_step", "last_checkpoint"} ]

\* the snapshot resumeProcessing saves
ResumeSnapshot(progress) ==
    [ progress EXCEPT !.status = "running", !.bad = @ \ {"status"} ]

\* resumeProcessing's test `!progress || progress.status === 'completed'`
ResumeRefusedAlsoFailed(found, progress) ==
    \/ ~found
    \/ ("status" \notin progress.bad /\ progress.status \in {"completed", "failed"})
ResumeRefused(found, progress) ==
    \/ ~found
    \/ ("status" \notin progress.bad /\ progress.status = "completed")

\* the row saveProgress inserts
ProgressRow(id, progress) ==
    [ action      |-> "progress_update",
      user_id     |-> UserId,
      document_id |-> progress.documentId,
      details     |-> [ id              |-> id,
                        current_step    |-> progress.currentStep,
                        total_steps     |-> progress.totalSteps,
                        completed_steps |-> progress.completedSteps,
                        status          |-> progress.status,
                        last_checkpoint |-> progress.lastCheckpoint,
                        metadata        |-> progress.metadata,
                        bad             |-> progress.bad ] ]

\* typeof details.<field> is the required type
TypeOk(details, field) == field \notin details.bad

\* the check of the row's details in loadProgress (isProgressDetails)
CheckedFieldsNoCount == RequiredFields \ {"completed_steps"}
CheckedFields == RequiredFields
isProgressDetails(details) == \A f \in CheckedFields : TypeOk(details, f)

\* the rows the query of loadProgress matches, as indexes into the table
MatchingRows(id) ==
    { i \in 1 .. Len(logs) :
        logs[i].action = "progress_update" /\ logs[i].details.id = id }

SetMax(S) == CHOOSE x \in S : \A y \in S : y <= x
SetMin(S) == CHOOSE x \in S : \A y \in S : x <= y

\* .order('timestamp', { ascending: false }).limit(1): the row to examine
PickedRowOldest(id) == SetMin(MatchingRows(id))
PickedRow(id) == SetMax(MatchingRows(id))

\* the progress loadProgress builds from a row
RowSession(row) ==
    Session(row.document_id, row.details.current_step, row.details.total_steps,
            row.details.completed_steps, row.details.status,
            row.details.last_checkpoint, row.details.metadata, {})

\* this.progressCache.set(id, progress)
CacheSetMerged(c, id, progress) ==
    [x \in DOMAIN c \cup {id} |->
       IF x # id THEN c[x]
       ELSE IF id \in DOMAIN c
       THEN [ progress EXCEPT !.metadata = Spread(c[id].metadata, @) ]
       ELSE progress]
CacheSet(c, id, progress) ==
    [x \in DOMAIN c \cup {id} |-> IF x = id THEN progress ELSE c[x]]

\* a caught failure inside saveProgress / loadProgress: does the call reject?
TrackerRejectsUncaught(failed) == failed
TrackerRejects(failed) == FALSE

----------------------------------------------------------------------------
(* ProgressTracker: the operations.  Each task runs one async call at a     *)
(* time; its pc is the await it is suspended at:                            *)
(*   query  - loadProgress awaits the table query (cache miss)              *)
(*   auth   - saveProgress awaits supabase.auth.getUser()                   *)
(*   insert - saveProgress awaits the insert; the table has not run it yet  *)
(*   set    - the table has run the insert; the await has not resumed yet   *)
(* The code between two awaits runs without interruption (one thread).      *)

NoId == <<"processing", Undefined, 0>>

IdleTask ==
    [ op        |-> "idle",
      pc        |-> "idle",
      id        |-> NoId,
      doc       |-> Undefined,      \* createProcessingSession's documentId
      totalSteps |-> 0,             \* createProcessingSession's totalSteps
      stepName  |-> Undefined,      \* createCheckpoint's stepName
      metadata  |-> NoMetadata,     \* createCheckpoint's metadata
      status    |-> Undefined,      \* the status a caller sets explicitly
      found     |-> FALSE,          \* loadProgress returned a session
      snap      |-> NullSession,    \* the session loadProgress returned
      queried   |-> FALSE,          \* loadProgress queried the table
      q         |-> Undefined,      \* how that query settled
      toSave    |-> NullSession,    \* the argument of saveProgress
      saveCalls |-> 0,              \* calls of saveProgress made
      ins       |-> Undefined,      \* how the insert settled
      saved     |-> FALSE,          \* saveProgress wrote the cache
      ret       |-> Undefined,      \* the value the call resolved to
      out       |-> "pending" ]     \* pending, resolved or rejected

TrackerInit ==
    /\ cache = << >>
    /\ tasks = [t \in Tasks |-> IdleTask]
    /\ track = [ started |-> 0 ]

Busy(t) == tasks[t].pc \notin {"idle", "done"}

\* A call can start on a task that runs none.  The tasks are interchangeable,
\* so a call starts on the first free one.
Free(t) ==
    /\ ~Busy(t)
    /\ track.started < MaxOps
    /\ \A u \in Tasks : (~Busy(u)) => (TaskOrder[t] <= TaskOrder[u])

Started == [ track EXCEPT !.started = @ + 1 ]

\* what each operation resolves to once its saveProgress call has returned
ReturnValue(op) ==
    CASE op = "create" -> "id"
      [] op = "resume" -> "true"
      [] OTHER -> Undefined

\* the task once the call it runs has settled
Settled(task, ret, failed) ==
    [ IdleTask EXCEPT
        !.op = task.op,
        !.id = task.id,
        !.found = task.found,
        \* the session a call of loadProgress resolves to
        !.snap = IF task.op = "load" THEN task.snap ELSE NullSession,
        !.queried = task.queried,
        !.q = task.q,
        !.saveCalls = task.saveCalls,
        !.saved = task.saved,
        !.pc = "done",
        !.ret = IF TrackerRejects(failed) THEN Undefined ELSE ret,
        !.out = IF TrackerRejects(failed) THEN "rejected" ELSE "resolved" ]

\* the caller goes on to `await this.saveProgress(snapshot)`, which runs up to
\* its first await
CallSave(task, snapshot) ==
    [ task EXCEPT !.toSave = snapshot, !.saveCalls = @ + 1, !.pc = "auth" ]

\* the code after `await this.loadProgress(id)` in each operation
ContinueAfterLoad(task, found, progress) ==
    LET tk == [ task EXCEPT !.found = found,
                            !.snap = IF found THEN progress ELSE NullSession ]
    IN CASE tk.op = "load" ->
              Settled(tk, IF found THEN "session" ELSE "null", FALSE)
         [] tk.op = "checkpoint" ->
              IF found
              THEN CallSave(tk, CheckpointSnapshot(progress, tk.stepName, tk.metadata))
              ELSE Settled(tk, Undefined, FALSE)
         [] tk.op = "resume" ->
              IF ResumeRefused(found, progress)
              THEN Settled(tk, "false", FALSE)
              ELSE CallSave(tk, ResumeSnapshot(progress))
         [] OTHER ->   \* setStatus
              IF found /\ "status" \notin progress.bad /\ progress.status = "running"
              THEN CallSave(tk, [progress EXCEPT !.status = tk.status])
              ELSE Settled(tk, Undefined, FALSE)

\* loadProgress up to its first await: `if (this.progressCache.has(id)) return ...`
CacheHitNever(id) == FALSE
CacheHit(id) == id \in DOMAIN cache

\* an operation that starts with `await this.loadProgress(id)` is called
CallWithLoad(t, base) ==
    /\ Free(t)
    /\ tasks' = [ tasks EXCEPT ![t] =
                    IF CacheHit(base.id)
                    THEN ContinueAfterLoad(base, TRUE, cache[base.id])
                    ELSE [ base EXCEPT !.pc = "query", !.queried = TRUE ] ]
    /\ track' = Started
    /\ UNCHANGED <<logs, retry, fb, cache, sec, san, ui, fn>>

\* progressTracker.loadProgress(id) is called
loadProgressCall(t) ==
    \E id \in Ids :
      CallWithLoad(t, [ IdleTask EXCEPT !.op = "load", !.id = id ])

\* the continuation made by createCheckpoint(id, stepName, metadata) is called
createCheckpointCall(t) ==
    \E id \in OwnIds, stepName \in StepNames, metadata \in MetaArgs :
      CallWithLoad(t, [ IdleTask EXCEPT !.op = "checkpoint", !.id = id,
                                        !.stepName = stepName,
                                        !.metadata = metadata ])

\* progressTracker.resumeProcessing(id) is called
resumeProcessingCall(t) ==
    \E id \in OwnIds :
      CallWithLoad(t, [ IdleTask EXCEPT !.op = "resume", !.id = id ])

\* a caller sets an explicit status on a running session:
\* saveProgress({ ...(await loadProgress(id)), status })
setStatusCall(t) ==
    \E id \in OwnIds, st \in Statuses \ {"running"} :
      CallWithLoad(t, [ IdleTask EXCEPT !.op = "setStatus", !.id = id,
                                        !.status = st ])

\* the table query of loadProgress settles
QueryOutcomes == {"ok", "error", "throw"}

loadProgressQuery(t) ==
    /\ tasks[t].pc = "query"
    /\ \E q \in QueryOutcomes :
         LET id == tasks[t].id
             hasRow == q = "ok" /\ MatchingRows(id) # {}
             row == logs[PickedRow(id)]
             valid == hasRow /\ isProgressDetails(row.details)
         IN IF q = "throw" /\ TrackerRejects(TRUE)
            THEN /\ tasks' = [ tasks EXCEPT ![t] =
                                 Settled([ @ EXCEPT !.q = q ], Undefined, TRUE) ]
                 /\ cache' = cache
            ELSE IF valid
            THEN /\ cache' = CacheSet(cache, id, RowSession(row))
                 /\ tasks' = [ tasks EXCEPT ![t] =
                                 ContinueAfterLoad([ @ EXCEPT !.q = q ], TRUE,
                                                   RowSession(row)) ]
            ELSE /\ cache' = cache
                 /\ tasks' = [ tasks EXCEPT ![t] =
                                 ContinueAfterLoad([ @ EXCEPT !.q = q ], FALSE,
                                                   NullSession) ]
    /\ UNCHANGED <<logs, retry, fb, track, sec, san, ui, fn>>

\* createProcessingSession(documentId, totalSteps) is called
createProcessingSession(t) ==
    /\ Free(t)
    /\ \E doc \in OwnDocs, totalSteps \in TotalStepsSet, now \in Times :
         LET id == SessionId(doc, now)
         IN /\ tasks' = [ tasks EXCEPT ![t] =
                            CallSave([ IdleTask EXCEPT !.op = "create", !.id = id,
                                                       !.doc = doc,
                                                       !.totalSteps = totalSteps ],
                                     InitialSession(doc, totalSteps)) ]
            /\ track' = Started
    /\ UNCHANGED <<logs, retry, fb, cache, sec, san, ui, fn>>

\* the required fields a caller of saveProgress leaves out of its partial
PartialBads ==
    { {"completed_steps"}, RequiredFields \ {"id", "status"} }

Partial(doc, st, bad) ==
    Session(doc,
            IF "current_step" \in bad THEN Undefined ELSE "initialized",
            IF "total_steps" \in bad THEN 0 ELSE 5,
            0,
            IF "status" \in bad THEN Undefined ELSE st,
            IF "last_checkpoint" \in bad THEN Undefined ELSE "initialized",
            NoMetadata, bad)

\* a caller passes saveProgress a partial session
saveProgressCall(t) ==
    /\ Free(t)
    /\ \E doc \in OwnDocs, now \in Times, st \in {"failed"}, bad \in PartialBads :
         LET id == SessionId(doc, now)
         IN /\ tasks' = [ tasks EXCEPT ![t] =
                            CallSave([ IdleTask EXCEPT !.op = "savePartial", !.id = id ],
                                     Partial(doc, st, bad)) ]
            /\ track' = Started
    /\ UNCHANGED <<logs, retry, fb, cache, sec, san, ui, fn>>

\* saveProgress: `await supabase.auth.getUser()` settles, then
\* `if (!user) throw ...`; the catch block ends the call
saveProgressAuth(t) ==
    /\ tasks[t].pc = "auth"
    /\ \E auth \in AuthOutcomes :
         tasks' = [ tasks EXCEPT ![t] =
                      IF auth = "user"
                      THEN [ @ EXCEPT !.pc = "insert" ]
                      ELSE Settled(@, ReturnValue(@.op), TRUE) ]
    /\ UNCHANGED <<logs, retry, fb, cache, track, sec, san, ui, fn>>

\* the table runs (or fails to run) the insert of saveProgress
saveProgressInsert(t) ==
    /\ tasks[t].pc = "insert"
    /\ \E ins \in InsertOutcomes :
         /\ logs' = IF ins = "ok"
                    THEN Append(logs, ProgressRow(tasks[t].id, tasks[t].toSave))
                    ELSE logs
         /\ tasks' = [ tasks EXCEPT ![t] = [ @ EXCEPT !.ins = ins, !.pc = "set" ] ]
    /\ UNCHANGED <<retry, fb, cache, track, sec, san, ui, fn>>

\* whether saveProgress goes on to this.progressCache.set(..) once the insert
\* has settled: a throw goes to the catch block, an { error } result is ignored
ReachesCacheSetOnlyStored(ins) == ins = "ok"
ReachesCacheSetAlways(ins) == TRUE
ReachesCacheSet(ins) == ins # "throw"

\* saveProgress: `await ...insert(progressData)` resumes
saveProgressSet(t) ==
    /\ tasks[t].pc = "set"
    /\ IF ReachesCacheSet(tasks[t].ins)
       THEN /\ cache' = CacheSet(cache, tasks[t].id, tasks[t].toSave)
            /\ tasks' = [ tasks EXCEPT ![t] =
                            Settled([ @ EXCEPT !.saved = TRUE ], ReturnValue(@.op), FALSE) ]
       ELSE /\ cache' = cache
            /\ tasks' = [ tasks EXCEPT ![t] = Settled(@, ReturnValue(@.op), TRUE) ]
    /\ UNCHANGED <<logs, retry, fb, track, sec, san, ui, fn>>

\* The table outlives the page: when the page loads (a new ProgressTracker
\* with an empty cache) it holds the rows that the saveProgress calls of
\* earlier page loads inserted.  These are the tables of such histories.
EarlierCheckpoint ==
    CheckpointSnapshot(InitialSession("d1", 5), "security_scan",
                       [def |-> TRUE, kv |-> ("file_path" :> "p2") @@ ("document_id" :> "x")])

InitialTables ==
    LET created == ProgressRow(SessionId("d1", 1), InitialSession("d1", 5))
        other   == ProgressRow(SessionId("d2", 1), InitialSession("d2", 2))
        stepped == ProgressRow(SessionId("d1", 1), EarlierCheckpoint)
        withStatus(st) ==
            ProgressRow(SessionId("d1", 1), [EarlierCheckpoint EXCEPT !.status = st])
        statusOnly == ProgressRow(SessionId("d1", 1),
                                  Partial("d1", "failed", RequiredFields \ {"id", "status"}))
        noCount == ProgressRow(SessionId("d1", 1),
                               Partial("d1", "failed", {"completed_steps"}))
    IN { << >>,
         << created, other >>,
         << created, noCount >>,
         << created, stepped, withStatus("paused") >>,
         << created, stepped, withStatus("failed") >>,
         << created, stepped, withStatus("completed") >>,
         << created, statusOnly >> }

----------------------------------------------------------------------------
(* security: PHI_PATTERNS.  A text is a sequence of characters; a pattern   *)
(* is matched as the regular-expression engine matches it: left to right,   *)
(* greedy quantifiers first, no overlap between the matches of one scan.    *)

LowerSeq == <<"a", "b", "c", "d", "e", "f", "g", "h", "i", "j", "k", "l", "m",
             "n", "o", "p", "q", "r", "s", "t", "u", "v", "w", "x", "y", "z">>
UpperSeq == <<"A", "B", "C", "D", "E", "F", "G", "H", "I", "J", "K", "L", "M",
             "N", "O", "P", "Q", "R", "S", "T", "U", "V", "W", "X", "Y", "Z">>
Lower == { LowerSeq[k] : k \in 1 .. 26 }
Upper == { UpperSeq[k] : k \in 1 .. 26 }
Digits == {"0", "1", "2", "3", "4", "5", "6", "7", "8", "9"}

\* \d, \w, \s
IsDigit(c) == c \in Digits
IsWord(c) == c \in Digits \cup Lower \cup Upper \cup {"_"}
WhiteSpace == {" ", "\t", "\n", "\r"}

\* the i flag: letters compare by their upper case
ToUpper(c) == IF c \in Lower
              THEN UpperSeq[CHOOSE k \in 1 .. 26 : LowerSeq[k] = c]
              ELSE c

\* \b at position i: between text[i-1] and text[i]
Boundary(text, i) ==
    (i > 1 /\ i <= Len(text) + 1 /\ IsWord(text[i - 1]))
       # (i >= 1 /\ i <= Len(text) /\ IsWord(text[i]))

\* Positions are 1 .. Len(text) + 1; a matcher gives the position after the
\* match, or 0 for no match (which the matchers applied after it pass on).

\* the end of the longest run of characters of a class from position i
RunEnd(text, i, InClass(_)) ==
    LET stops == { j \in i .. Len(text) + 1 : j = Len(text) + 1 \/ ~InClass(text[j]) }
    IN CHOOSE j \in stops : \A k \in stops : j <= k

\* \d{n}
DigitsAt(text, i, n) ==
    IF i >= 1 /\ i + n - 1 <= Len(text) /\ \A k \in i .. i + n - 1 : IsDigit(text[k])
    THEN i + n ELSE 0

\* [set]?
OptAt(text, i, set) ==
    IF i >= 1 /\ i <= Len(text) /\ text[i] \in set THEN i + 1 ELSE i

\* [set]
OneAt(text, i, set) ==
    IF i >= 1 /\ i <= Len(text) /\ text[i] \in set THEN i + 1 ELSE 0

\* a literal word; `fold` is the i flag
LiteralAt(text, i, word, fold) ==
    IF /\ i >= 1
       /\ i + Len(word) - 1 <= Len(text)
       /\ \A k \in 1 .. Len(word) :
            IF fold THEN ToUpper(text[i + k - 1]) = ToUpper(word[k])
                    ELSE text[i + k - 1] = word[k]
    THEN i + Len(word) ELSE 0

\* the first alternative that matched
FirstOf(ends) ==
    IF \E k \in 1 .. Len(ends) : ends[k] > 0
    THEN ends[CHOOSE k \in 1 .. Len(ends) :
                 ends[k] > 0 /\ \A j \in 1 .. k - 1 : ends[j] = 0]
    ELSE 0

\* SSN: /\b\d{3}-?\d{2}-?\d{4}\b/g
MatchSSN(text, i) ==
    LET a == DigitsAt(text, i, 3)
        b == DigitsAt(text, OptAt(text, a, {"-"}), 2)
        c == DigitsAt(text, OptAt(text, b, {"-"}), 4)
    IN IF Boundary(text, i) /\ a > 0 /\ b > 0 /\ c > 0 /\ Boundary(text, c)
       THEN c ELSE 0

\* PHONE: /\b\d{3}[-.]?\d{3}[-.]?\d{4}\b/g
MatchPHONE(text, i) ==
    LET a == DigitsAt(text, i, 3)
        b == DigitsAt(text, OptAt(text, a, {"-", "."}), 3)
        c == DigitsAt(text, OptAt(text, b, {"-", "."}), 4)
    IN IF Boundary(text, i) /\ a > 0 /\ b > 0 /\ c > 0 /\ Boundary(text, c)
       THEN c ELSE 0

\* EMAIL: /\b[A-Za-z0-9._%+-]+@[A-Za-z0-9.-]+\.[A-Z|a-z]{2,}\b/g
InLocal(c) == c \in Lower \cup Upper \cup Digits \cup {".", "_", "%", "+", "-"}
InDomain(c) == c \in Lower \cup Upper \cup Digits \cup {".", "-"}
InTld(c) == c \in Lower \cup Upper \cup {"|"}

MatchEMAIL(text, i) ==
    LET at == RunEnd(text, i, InLocal)          \* where the local part stops
        dom == RunEnd(text, at + 1, InDomain)   \* where the domain run stops
        \* the dot before the top-level part at k, the match ending before e
        ways == { w \in (at + 2 .. dom - 1) \X (at + 5 .. Len(text) + 1) :
                    /\ text[w[1]] = "."
                    /\ w[2] >= w[1] + 3
                    /\ w[2] <= RunEnd(text, w[1] + 1, InTld)
                    /\ Boundary(text, w[2]) }
        \* greedy: the longest domain, then the longest top-level part
        best == CHOOSE w \in ways :
                  \A v \in ways : v[1] < w[1] \/ (v[1] = w[1] /\ v[2] <= w[2])
    IN IF /\ i >= 1 /\ i <= Len(text)
          /\ Boundary(text, i)
          /\ at > i
          /\ at <= Len(text) /\ text[at] = "@"
          /\ ways # {}
       THEN best[2] ELSE 0

\* DATE_OF_BIRTH:
\* /\b(0[1-9]|1[0-2])[\/\-](0[1-9]|[12]\d|3[01])[\/\-](19|20)\d{2}\b/g
MatchDATE_OF_BIRTH(text, i) ==
    LET NonZero == Digits \ {"0"}
        month == FirstOf(<< OneAt(text, OneAt(text, i, {"0"}), NonZero),
                            OneAt(text, OneAt(text, i, {"1"}), {"0", "1", "2"}) >>)
        d == OneAt(text, month, {"/", "-"})
        day == FirstOf(<< OneAt(text, OneAt(text, d, {"0"}), NonZero),
                          OneAt(text, OneAt(text, d, {"1", "2"}), Digits),
                          OneAt(text, OneAt(text, d, {"3"}), {"0", "1"}) >>)
        y == OneAt(text, day, {"/", "-"})
        century == FirstOf(<< LiteralAt(text, y, <<"1", "9">>, FALSE),
                              LiteralAt(text, y, <<"2", "0">>, FALSE) >>)
        e == DigitsAt(text, century, 2)
    IN IF Boundary(text, i) /\ e > 0 /\ Boundary(text, e) THEN e ELSE 0

\* [\s\-]?#?[\s\-]?(\d{n,})\b after a keyword that ends before p
MatchNumberAfter(text, p, n) ==
    LET Sep == WhiteSpace \cup {"-"}
        q == OptAt(text, OptAt(text, OptAt(text, p, Sep), {"#"}), Sep)
        e == RunEnd(text, q, IsDigit)
    IN IF p > 0 /\ e - q >= n /\ Boundary(text, e) THEN e ELSE 0

\* keyword[\s\-]?keyword
MatchTwoWords(text, i, first, second) ==
    LiteralAt(text, OptAt(text, LiteralAt(text, i, first, TRUE),
                          WhiteSpace \cup {"-"}), second, TRUE)

\* MEDICAL_RECORD:
\* /\b(MR|MRN|MEDICAL[\s\-]?RECORD)[\s\-]?#?[\s\-]?(\d{6,})\b/gi
MatchMEDICAL_RECORD(text, i) ==
    IF ~Boundary(text, i) THEN 0
    ELSE FirstOf(<<
           MatchNumberAfter(text, LiteralAt(text, i, <<"M", "R">>, TRUE), 6),
           MatchNumberAfter(text, LiteralAt(text, i, <<"M", "R", "N">>, TRUE), 6),
           MatchNumberAfter(text,
               MatchTwoWords(text, i, <<"M", "E", "D", "I", "C", "A", "L">>,
                                      <<"R", "E", "C", "O", "R", "D">>), 6) >>)

\* HEALTH_CARD: /\b(HC|HEALTH[\s\-]?CARD)[\s\-]?#?[\s\-]?(\d{8,})\b/gi
MatchHEALTH_CARD(text, i) ==
    IF ~Boundary(text, i) THEN 0
    ELSE FirstOf(<<
           MatchNumberAfter(text, LiteralAt(text, i, <<"H", "C">>, TRUE), 8),
           MatchNumberAfter(text,
               MatchTwoWords(text, i, <<"H", "E", "A", "L", "T", "H">>,
                                      <<"C", "A", "R", "D">>), 8) >>)

\* Object.entries(PHI_PATTERNS): the patterns in the order of the literal
PatternOrder ==
    << "SSN", "PHONE", "EMAIL", "DATE_OF_BIRTH", "MEDICAL_RECORD", "HEALTH_CARD" >>

MatchAt(fieldType, text, i) ==
    CASE fieldType = "SSN"            -> MatchSSN(text, i)
      [] fieldType = "PHONE"          -> MatchPHONE(text, i)
      [] fieldType = "EMAIL"          -> MatchEMAIL(text, i)
      [] fieldType = "DATE_OF_BIRTH"  -> MatchDATE_OF_BIRTH(text, i)
      [] fieldType = "MEDICAL_RECORD" -> MatchMEDICAL_RECORD(text, i)
      [] fieldType = "HEALTH_CARD"    -> MatchHEALTH_CARD(text, i)

\* a PHIField as detectPHI builds it
PHIField(fieldType, value) ==
    [ field          |-> fieldType,
      value          |-> value,
      isEncrypted    |-> FALSE,
      classification |-> IF fieldType = "EMAIL" THEN "PII" ELSE "PHI" ]

\* text.match(pattern): the matches of one scan from position i on
\* the leftmost position from i on where the pattern matches, or 0
NextMatch(fieldType, text, i) ==
    LET starts == { j \in i .. Len(text) : MatchAt(fieldType, text, j) > 0 }
    IN IF starts = {} THEN 0 ELSE CHOOSE j \in starts : \A k \in starts : j <= k

RECURSIVE MatchesFrom(_, _, _)
MatchesFrom(fieldType, text, i) ==
    LET j == NextMatch(fieldType, text, i)
    IN IF j = 0 THEN << >>
       ELSE LET e == MatchAt(fieldType, text, j)
            IN <<SubSeq(text, j, e - 1)>> \o MatchesFrom(fieldType, text, e)

\* detectPHI(text): one PHIField per match, pattern by pattern
RECURSIVE DetectFrom(_, _)
DetectFrom(text, k) ==
    IF k > Len(PatternOrder) THEN << >>
    ELSE LET found == MatchesFrom(PatternOrder[k], text, 1)
         IN [ j \in 1 .. Len(found) |-> PHIField(PatternOrder[k], found[j]) ]
              \o DetectFrom(text, k + 1)

detectPHI(text) == DetectFrom(text, 1)

\* Texts to scan: a match of each pattern, two fragments that only match
\* next to something else, and separators
TextSSN == <<"1", "2", "3", "-", "4", "5", "-", "6", "7", "8", "9">>
TextPhone == <<"5", "5", "5", ".", "1", "2", "3", ".", "4", "5", "6", "7">>
TextEmail == <<"a", "@", "b", ".", "c", "o">>
TextBirth == <<"0", "1", "/", "3", "1", "/", "1", "9", "9", "9">>
TextRecord == <<"M", "R", "N", " ", "1", "2", "3", "4", "5", "6", "7">>
TextRecordLong == <<"m", "r", "#", "1", "2", "3", "4", "5", "6", "7", "8", "9">>
TextCard == <<"H", "e", "a", "l", "t", "h", "-", "C", "a", "r", "d", " ", "1", "2", "3", "4", "5", "6", "7", "8">>
TextDomain == <<"@", "c", ".", "d", "e">>
TextDigitsDot == <<"1", "1", "1", "2", "2", "3", "3", "3", "3", ".">>
TextChunks ==
    { TextSSN, TextPhone, TextEmail, TextBirth, TextRecord, TextRecordLong,
      TextCard, TextDomain, TextDigitsDot,
      <<" ">>, <<"x">>, <<"_">>, <<"|">>, <<".">>, <<"-">>, <<"9">> }

\* the text repeated n times, a space after each
RECURSIVE Repeated(_, _)
Repeated(text, n) == IF n <= 0 THEN << >> ELSE text \o <<" ">> \o Repeated(text, n - 1)

\* an e-mail address whose local part has n nine-digit groups
RECURSIVE DigitGroups(_)
DigitGroups(n) == IF n <= 0 THEN << >> ELSE TextDigitsDot \o DigitGroups(n - 1)
LongEmail(n) == DigitGroups(n) \o TextEmail

\* the largest number of repetitions / digit groups in a scanned text
MaxRepeats == 7

\* the contents validateDocumentSecurity is given
ScanContents ==
    { Repeated(TextEmail, n) : n \in 0 .. MaxRepeats }
      \cup { LongEmail(n) : n \in 0 .. MaxRepeats }
      \cup TextChunks
      \cup { a \o b : a \in {TextEmail, TextSSN, <<"x">>}, b \in TextChunks }

----------------------------------------------------------------------------
(* security: sanitizeForExport *)

\* the characters of a pattern's name
NameChars(fieldType) ==
    CASE fieldType = "SSN" ->
           <<"S", "S", "N">>
      [] fieldType = "PHONE" ->
           <<"P", "H", "O", "N", "E">>
      [] fieldType = "EMAIL" ->
           <<"E", "M", "A", "I", "L">>
      [] fieldType = "DATE_OF_BIRTH" ->
           <<"D", "A", "T", "E", "_", "O", "F", "_", "B", "I", "R", "T", "H">>
      [] fieldType = "MEDICAL_RECORD" ->
           <<"M", "E", "D", "I", "C", "A", "L", "_", "R", "E", "C", "O", "R", "D">>
      [] fieldType = "HEALTH_CARD" ->
           <<"H", "E", "A", "L", "T", "H", "_", "C", "A", "R", "D">>

\* `[REDACTED_${fieldType}]`
MarkerNoBrackets(fieldType) ==
    <<"R", "E", "D", "A", "C", "T", "E", "D", "_">> \o NameChars(fieldType)
Marker(fieldType) ==
    <<"[", "R", "E", "D", "A", "C", "T", "E", "D", "_">> \o NameChars(fieldType) \o <<"]">>

\* sanitized.replace(pattern, marker): every match of one scan replaced
RECURSIVE ReplaceFrom(_, _, _)
ReplaceFrom(fieldType, text, i) ==
    LET j == NextMatch(fieldType, text, i)
    IN IF j = 0 THEN SubSeq(text, i, Len(text))
       ELSE SubSeq(text, i, j - 1) \o Marker(fieldType)
              \o ReplaceFrom(fieldType, text, MatchAt(fieldType, text, j))

\* the forEach over the patterns, from the k-th on
RECURSIVE SanitizeFrom(_, _)
SanitizeFrom(text, k) ==
    IF k > Len(PatternOrder) THEN text
    ELSE SanitizeFrom(ReplaceFrom(PatternOrder[k], text, 1), k + 1)

\* A value to export: a string, an array (items: its elements), an object
\* (items: its entries, each <<key, value>>) or another scalar (text: its name)
StringValue(text) == [kind |-> "string", text |-> text, items |-> << >>]
ArrayValue(items) == [kind |-> "array", text |-> << >>, items |-> items]
ObjectValue(entries) == [kind |-> "object", text |-> << >>, items |-> entries]
ScalarValue(name) == [kind |-> "other", text |-> name, items |-> << >>]

RECURSIVE sanitizeForExport(_)
sanitizeForExport(data) ==
    CASE data.kind = "string" -> StringValue(SanitizeFrom(data.text, 1))
      [] data.kind = "array" ->
           ArrayValue([ i \in 1 .. Len(data.items) |-> sanitizeForExport(data.items[i]) ])
      [] data.kind = "object" ->
           ObjectValue([ i \in 1 .. Len(data.items) |->
                           << data.items[i][1], sanitizeForExport(data.items[i][2]) >> ])
      [] OTHER -> data

\* how many chunks the exported strings are made of, at most
MaxChunks == 2

RECURSIVE ChunkTexts(_)
ChunkTexts(n) ==
    IF n <= 0 THEN { << >> }
    ELSE ChunkTexts(n - 1) \cup { a \o b : a \in ChunkTexts(n - 1), b \in TextChunks }

\* the values exported: every string of up to MaxChunks chunks, and arrays
\* and objects around some of them
ExportValues ==
    LET strings == { StringValue(t) : t \in ChunkTexts(MaxChunks) }
        some == { StringValue(t) : t \in { TextSSN, TextEmail \o TextDomain,
                                            Marker("EMAIL") \o TextDomain } }
        scalars == { ScalarValue(<<"null">>), ScalarValue(<<"42">>) }
        arrays == { ArrayValue(<<a, b>>) : a \in some \cup scalars, b \in some }
        objects == { ObjectValue(<< <<TextEmail, a>>, << <<"rows">>, b >> >>) :
                       a \in some \cup scalars, b \in arrays }
    IN strings \cup scalars \cup arrays \cup objects \cup { ArrayValue(<< >>) }

SanInit ==
    \E data \in ExportValues :
        san = [ pc |-> "input", input |-> data,
                once |-> ScalarValue(<<"undefined">>), twice |-> ScalarValue(<<"undefined">>) ]

\* sanitizeForExport(data) is called
sanitizeForExportCall ==
    /\ san.pc = "input"
    /\ san' = [ san EXCEPT !.pc = "once", !.once = sanitizeForExport(san.input) ]
    /\ UNCHANGED <<logs, retry, fb, cache, tasks, track, sec, ui, fn>>

\* sanitizeForExport is called on what it returned
sanitizeForExportAgain ==
    /\ san.pc = "once"
    /\ san' = [ san EXCEPT !.pc = "twice", !.twice = sanitizeForExport(san.once) ]
    /\ UNCHANGED <<logs, retry, fb, cache, tasks, track, sec, ui, fn>>

----------------------------------------------------------------------------
(* security: logComplianceEvent *)

Null == "null"

\* a value that `||` passes over
Falsy(v) == v \in {Undefined, Null, ""}
OrElse(a, b) == IF Falsy(a) THEN b ELSE a

\* event.phiFields: undefined, or a list of PHIField
NoFields == [def |-> FALSE, seq |-> << >>]
Fields(seq) == [def |-> TRUE, seq |-> seq]

\* user_id: event.userId || user?.id || 'system'
ActingUserLookupFirst(userId, user) == OrElse(user, OrElse(userId, "system"))
ActingUser(userId, user) == OrElse(userId, OrElse(user, "system"))

\* the row logComplianceEvent hands to insert (compliance_timestamp left out)
ComplianceRow(event, user) ==
    [ action      |-> <<"compliance", event.action>>,
      user_id     |-> ActingUser(event.userId, user),
      document_id |-> OrElse(event.documentId, Null),
      details     |->
          Spread([def |-> TRUE,
                  kv  |-> ("phi_fields_count" :> Len(event.phiFields.seq)) @@
                          ("phi_classifications" :>
                               [i \in 1 .. Len(event.phiFields.seq) |->
                                    event.phiFields.seq[i].classification])],
                 event.details).kv ]

\* the events the callers of this model pass
ComplianceEvents ==
    [ action     : {"document_processed", "data_export"},
      documentId : {Undefined, "doc1"},
      phiFields  : {NoFields, Fields(<< >>), Fields(<<PHIField("EMAIL", "a@b.co")>>)},
      userId     : {Undefined, "", "u9"},
      details    : {NoMetadata, [def |-> TRUE, kv |-> ("filename" :> "f.pdf")]} ]

\* a failure caught by the try/catch of logComplianceEvent: does the call reject?
ComplianceRejectsUncaught(failed) == failed
ComplianceRejects(failed) == FALSE

\* riskLevel: phiFields.length > 5 ? 'HIGH' : phiFields.length > 0 ? 'MEDIUM' : 'LOW'
HighRiskAbove == 5
RiskLevelFromFive(n) ==
    IF n >= HighRiskAbove THEN "HIGH" ELSE IF n > 0 THEN "MEDIUM" ELSE "LOW"
RiskLevel(n) ==
    IF n > HighRiskAbove THEN "HIGH" ELSE IF n > 0 THEN "MEDIUM" ELSE "LOW"

\* what validateDocumentSecurity returns
ScanResult(phiFields) ==
    [ def       |-> TRUE,
      hasPHI    |-> Len(phiFields) > 0,
      phiFields |-> phiFields,
      riskLevel |-> RiskLevel(Len(phiFields)) ]
NoScanResult ==
    [ def |-> FALSE, hasPHI |-> FALSE, phiFields |-> << >>, riskLevel |-> Undefined ]

\* the event validateDocumentSecurity logs (document_scan_timestamp left out)
ScanEventAlwaysDetected(documentId, phiFields) ==
    [ action     |-> "phi_detection",
      documentId |-> documentId,
      phiFields  |-> Fields(phiFields),
      userId     |-> Undefined,
      details    |-> [def |-> TRUE, kv |-> ("phi_detected" :> TRUE)] ]
ScanEvent(documentId, phiFields) ==
    [ action     |-> "phi_detection",
      documentId |-> documentId,
      phiFields  |-> Fields(phiFields),
      userId     |-> Undefined,
      details    |-> [def |-> TRUE, kv |-> ("phi_detected" :> (Len(phiFields) > 0))] ]

NoEvent ==
    [ action |-> Undefined, documentId |-> Undefined, phiFields |-> NoFields,
      userId |-> Undefined, details |-> NoMetadata ]

SecInit ==
    sec = [ pc        |-> "idle",
            caller    |-> Undefined,      \* who awaits the call
            event     |-> NoEvent,        \* the argument
            auth      |-> Undefined,      \* how the user lookup settled
            user      |-> Undefined,      \* the user it gave
            ins       |-> Undefined,      \* how the insert settled
            attempted |-> << >>,          \* the rows handed to insert
            out       |-> "pending",      \* pending, resolved or rejected
            content   |-> << >>,          \* validateDocumentSecurity's content
            result    |-> NoScanResult ]  \* what validateDocumentSecurity returns

\* logComplianceEvent(event) settles; validateDocumentSecurity, when it is
\* the caller, returns its result
SecSettled(s, failed) ==
    [ s EXCEPT !.pc = "done",
               !.out = IF ComplianceRejects(failed) THEN "rejected" ELSE "resolved",
               !.result = IF s.caller = "validate" /\ ~ComplianceRejects(failed)
                          THEN ScanResult(s.event.phiFields.seq)
                          ELSE NoScanResult ]

\* logComplianceEvent(event) is called and runs up to the user lookup
logComplianceEventCall ==
    /\ sec.pc = "idle"
    /\ \E event \in ComplianceEvents :
         sec' = [ sec EXCEPT !.pc = "auth", !.caller = "direct", !.event = event ]
    /\ UNCHANGED <<logs, retry, fb, cache, tasks, track, san, ui, fn>>

\* validateDocumentSecurity(documentId, content) is called: it scans the
\* content and calls logComplianceEvent, which runs up to the user lookup
validateDocumentSecurityCall ==
    /\ sec.pc = "idle"
    /\ \E content \in ScanContents :
         sec' = [ sec EXCEPT !.pc = "auth", !.caller = "validate",
                             !.content = content,
                             !.event = ScanEvent("doc1", detectPHI(content)) ]
    /\ UNCHANGED <<logs, retry, fb, cache, tasks, track, san, ui, fn>>

\* `await supabase.auth.getUser()` settles
logComplianceEventAuth ==
    /\ sec.pc = "auth"
    /\ \E auth \in AuthOutcomes :
         sec' = IF auth = "throw"
                THEN SecSettled([ sec EXCEPT !.auth = auth ], TRUE)
                ELSE [ sec EXCEPT !.auth = auth,
                                  !.user = IF auth = "user" THEN UserId ELSE Null,
                                  !.pc = "insert" ]
    /\ UNCHANGED <<logs, retry, fb, cache, tasks, track, san, ui, fn>>

\* `await supabase.from('processing_logs').insert(..)` settles; an { error }
\* result is not looked at
logComplianceEventInsert ==
    /\ sec.pc = "insert"
    /\ \E ins \in InsertOutcomes :
         LET row == ComplianceRow(sec.event, sec.user)
         IN /\ logs' = IF ins = "ok" THEN Append(logs, row) ELSE logs
            /\ sec' = SecSettled([ sec EXCEPT !.ins = ins,
                                              !.attempted = Append(@, row) ],
                                 ins = "throw")
    /\ UNCHANGED <<retry, fb, cache, tasks, track, san, ui, fn>>

----------------------------------------------------------------------------
(* orchestrator: processFiles and processFileWithEdgeFunction *)

\* how many files one batch holds and how many batches are dropped, at most
MaxBatch == 2
MaxBatches == 1

PdfType == "application/pdf"
FileTypes == {PdfType, "image/png", ""}
\* Math.random().toString(36).substr(2, 9): two draws may coincide
Id(k) == <<"id", k>>
FileIds == {Id(1), Id(2)}

\* the ids n draws give, named in the order they first come up
Draws(n) == { ids \in [1 .. n -> FileIds] : n > 0 => ids[1] = Id(1) }

\* the k-th file of a batch
File(k, type) == [name |-> <<"file", k>>, type |-> type]
Batches ==
    UNION { { [ k \in 1 .. n |-> File(k, types[k]) ] : types \in [1 .. n -> FileTypes] } :
            n \in 0 .. MaxBatch }

\* file => file.type === 'application/pdf'
AcceptedAnyType(file) == TRUE
Accepted(file) == file.type = PdfType

\* the kinds of write that only record what happened
ObservabilityWrites == {"progress_update", "error_occurred", "compliance", "fallback_processing"}

\* supabase.functions.invoke('process-document'): the function extracted the
\* data; its extraction step failed, which it catches; it answered 500 with
\* { success: false }, which invoke hands back as { data, error }; invoke threw
InvokeOutcomes == {"extracted", "unextracted", "failed", "throw"}

QueueEntry(file, id) ==
    [ id |-> id, name |-> file.name, status |-> "uploading", progress |-> 0,
      session |-> FALSE ]

\* processFileWithEdgeFunction(file, fileId), about to await getUser
NewRun(file, fileId) ==
    [ file       |-> file,
      fileId     |-> fileId,
      pc         |-> "auth",
      session    |-> FALSE,        \* createProcessingSession was called
      sid        |-> NoId,         \* the session id it returned
      continuations |-> 0,         \* how many checkpoint continuations were invoked
      attempt    |-> 1,            \* withRetry's attempt
      loaded     |-> NullSession,  \* the progress the running continuation loaded
      status     |-> "uploading",  \* the status this task last gave its entry
      upload     |-> "none",       \* how withRetry(uploadDocument) settled
      document   |-> "none",       \* how withRetry(createDocument) settled
      primary    |-> "none",       \* how primaryProcessing() settled
      fallback   |-> FALSE,        \* fallbackProcessing() was invoked
      insert     |-> "none",       \* how the fallback's insert into extractions settled
      extraction |-> "none",       \* the raw_data of the extraction record inserted
      notice     |-> "none" ]      \* the toast this task showed

\* the tracker as the queue's tasks use it: `cache` is progressCache.  A
\* session id made here has a
\* progress_update row only once it is in the cache (the insert comes before
\* the cache is set, and nothing leaves the cache), so the query loadProgress
\* makes on a cache miss finds no row
UiInit ==
    ui = [ batches |-> << >>, files |-> << >>, notices |-> << >>, runs |-> << >>,
           cache |-> << >> ]

\* processFiles(fileList), the ids being what Math.random gave
processFiles ==
    /\ Len(ui.batches) < MaxBatches
    /\ \E fileList \in Batches :
         LET pdfs == SelectSeq(fileList, Accepted)
             started == SelectSeq(fileList, Accepted)
         IN \E ids \in Draws(Len(pdfs)) :
              LET newFiles == [ k \in 1 .. Len(pdfs) |-> QueueEntry(pdfs[k], ids[k]) ]
              IN ui' = [ ui EXCEPT
                           !.batches = Append(@, fileList),
                           !.notices = IF Len(newFiles) # Len(fileList)
                                       THEN Append(@, "Invalid file format") ELSE @,
                           !.files = @ \o newFiles,
                           !.runs = @ \o [ k \in 1 .. Len(started) |->
                                             NewRun(started[k], newFiles[k].id) ] ]
    /\ UNCHANGED <<logs, retry, fb, cache, tasks, track, sec, san, fn>>

\* setFiles(prev => prev.map(f => f.id === fileId ? { ...f, status } : f))
SetStatusOfAll(files, fileId, status) ==
    [ k \in 1 .. Len(files) |-> [ files[k] EXCEPT !.status = status ] ]
SetStatus(files, fileId, status) ==
    [ k \in 1 .. Len(files) |->
        IF files[k].id = fileId THEN [ files[k] EXCEPT !.status = status ] ELSE files[k] ]

\* setFiles(prev => prev.map(f => f.id === fileId ? { ...f, sessionId } : f))
SetSession(files, fileId) ==
    [ k \in 1 .. Len(files) |->
        IF files[k].id = fileId THEN [ files[k] EXCEPT !.session = TRUE ] ELSE files[k] ]

\* setFiles(prev => prev.map(f => f.id === fileId ? { ...f, progress } : f))
SetProgress(files, fileId, progress) ==
    [ k \in 1 .. Len(files) |->
        IF files[k].id = fileId THEN [ files[k] EXCEPT !.progress = progress ] ELSE files[k] ]

\* the catch block: the entry gets status error and a toast is shown
CaughtResetsProgress(u, r, run) ==
    [ u EXCEPT !.files = SetProgress(SetStatus(@, run.fileId, "error"), run.fileId, 0),
                !.notices = Append(@, "Processing failed"),
                !.runs[r] = [ run EXCEPT !.pc = "done", !.status = "error",
                                         !.notice = "Processing failed" ] ]
Caught(u, r, run) ==
    [ u EXCEPT !.files = SetStatus(@, run.fileId, "error"),
                !.notices = Append(@, "Processing failed"),
                !.runs[r] = [ run EXCEPT !.pc = "done", !.status = "error",
                                         !.notice = "Processing failed" ] ]

\* the task goes on to its next await
Goes(u, r, run, pc) == [ u EXCEPT !.runs[r] = [ run EXCEPT !.pc = pc ] ]

\* await supabase.auth.getUser() settles
pipelineAuth(r) ==
    /\ ui.runs[r].pc = "auth"
    /\ \E auth \in AuthOutcomes :
         ui' = IF auth = "user" THEN Goes(ui, r, ui.runs[r], "session")
               ELSE Caught(ui, r, ui.runs[r])
    /\ UNCHANGED <<logs, retry, fb, cache, tasks, track, sec, san, fn>>

\* createProcessingSession(fileId, 5)
SessionTotalSteps == 5

\* Date.now() when a session is made for a file id: the value an earlier
\* session of that file id got, or another one, the values being named in the
\* order they come up
Nows(u, fileId) ==
    LET used == { u.runs[r].sid[3] :
                    r \in { x \in 1 .. Len(u.runs) :
                              u.runs[x].session /\ u.runs[x].fileId = fileId } }
    IN used \cup {Cardinality(used) + 1}

\* whether saveProgress inserted its row, given how getUser and the insert settled
RowStored(auth, ins) == auth = "user" /\ ins = "ok"

\* saveProgress(snapshot) for session id sid: this.progressCache.set
SaveEffect(u, sid, snapshot, auth, ins) ==
    [ u EXCEPT
        !.cache = IF auth = "user" /\ ReachesCacheSet(ins)
                  THEN CacheSet(@, sid, snapshot) ELSE @ ]

\* await createProcessingSession(fileId, 5) settles; the entry is given the
\* session and status processing
pipelineSession(r) ==
    /\ ui.runs[r].pc = "session"
    /\ \E now \in Nows(ui, ui.runs[r].fileId), auth \in AuthOutcomes, ins \in InsertOutcomes :
         LET sid == SessionId(ui.runs[r].fileId, now)
             saved == SaveEffect(ui, sid,
                                 InitialSession(ui.runs[r].fileId, SessionTotalSteps),
                                 auth, ins)
             run == [ ui.runs[r]
                        EXCEPT !.session = TRUE, !.sid = sid ]
         IN /\ auth = "user" \/ ins = "ok"
            /\ ui' = IF TrackerRejects(~RowStored(auth, ins)) THEN Caught(saved, r, run)
                     ELSE [ saved EXCEPT
                              !.files = SetProgress(
                                          SetStatus(SetSession(@, run.fileId),
                                                    run.fileId, "processing"),
                                          run.fileId, 10),
                              !.runs[r] = [ run EXCEPT !.pc = "scan",
                                                       !.status = "processing" ] ]
    /\ UNCHANGED <<logs, retry, fb, cache, tasks, track, sec, san, fn>>

\* await file.text().catch(() => '') and await validateDocumentSecurity settle
pipelineScan(r) ==
    /\ ui.runs[r].pc = "scan"
    /\ \E logged \in BOOLEAN :
         LET run == ui.runs[r]
         IN ui' = IF ComplianceRejects(~logged) THEN Caught(ui, r, run)
                  ELSE Goes(ui, r, run, "checkpoint1")
    /\ UNCHANGED <<logs, retry, fb, cache, tasks, track, sec, san, fn>>

\* what follows each checkpoint
AfterCheckpoint(pc) ==
    CASE pc \in {"checkpoint1", "save1"} -> "upload"
      [] pc \in {"checkpoint2", "save2"} -> "document"
      [] pc \in {"checkpoint3", "save3"} -> "primary"
      [] pc \in {"checkpoint4", "save4"} -> "compliance"

\* the await of saveProgress inside each continuation
SavePc(pc) ==
    CASE pc = "checkpoint1" -> "save1"
      [] pc = "checkpoint2" -> "save2"
      [] pc = "checkpoint3" -> "save3"
      [] pc = "checkpoint4" -> "save4"

\* createCheckpoint(sessionId, stepName, metadata): the arguments of each
CheckpointStep(pc) ==
    CASE pc = "save1" -> "security_scan"
      [] pc = "save2" -> "file_uploaded"
      [] pc = "save3" -> "document_created"
      [] pc = "save4" -> "processing_completed"
CheckpointMetadata(pc) ==
    CASE pc = "save1" -> NoMetadata
      [] pc = "save2" -> [def |-> TRUE, kv |-> ("file_path" :> "p1")]
      [] pc = "save3" -> [def |-> TRUE, kv |-> ("document_id" :> "x")]
      [] pc = "save4" -> [def |-> TRUE, kv |-> ("extraction_id" :> "e1")]

\* await checkpointN() has settled: the setFiles that follows it; after the
\* fourth the entry is given status completed and logComplianceEvent is called
Continued(u, r, run) ==
    LET pc == AfterCheckpoint(run.pc)
        next == [ run EXCEPT !.pc = pc, !.loaded = NullSession ]
    IN CASE pc = "upload" ->
              [ u EXCEPT !.files = SetProgress(@, run.fileId, 20), !.runs[r] = next ]
         [] pc = "document" -> [ u EXCEPT !.runs[r] = next ]
         [] pc = "primary" ->
              [ u EXCEPT !.files = SetProgress(@, run.fileId, 60), !.runs[r] = next ]
         [] pc = "compliance" ->
              [ u EXCEPT
                  !.files = SetProgress(SetStatus(@, run.fileId, "completed"),
                                        run.fileId, 100),
                  !.runs[r] = [ next EXCEPT !.status = "completed" ] ]

\* checkpointN() is invoked and its loadProgress settles: from the cache, or
\* with null after its query, and then the continuation returns
pipelineCheckpoint(r) ==
    /\ ui.runs[r].pc \in {"checkpoint1", "checkpoint2", "checkpoint3", "checkpoint4"}
    /\ \E q \in QueryOutcomes :
         LET run == [ ui.runs[r] EXCEPT !.continuations = @ + 1 ]
             sid == run.sid
             hit == sid \in DOMAIN ui.cache
         IN /\ hit => q = "ok"
            /\ ui' = IF hit
                     THEN Goes(ui, r, [ run EXCEPT !.loaded = ui.cache[sid] ], SavePc(run.pc))
                     ELSE IF q = "throw" /\ TrackerRejects(TRUE) THEN Caught(ui, r, run)
                     ELSE Continued(ui, r, run)
    /\ UNCHANGED <<logs, retry, fb, cache, tasks, track, sec, san, fn>>

\* the saveProgress of a continuation settles
pipelineCheckpointSave(r) ==
    /\ ui.runs[r].pc \in {"save1", "save2", "save3", "save4"}
    /\ \E auth \in AuthOutcomes, ins \in InsertOutcomes :
         LET run == ui.runs[r]
             snapshot == CheckpointSnapshot(run.loaded, CheckpointStep(run.pc),
                                            CheckpointMetadata(run.pc))
             saved == SaveEffect(ui, run.sid, snapshot, auth, ins)
         IN /\ auth = "user" \/ ins = "ok"
            /\ ui' = IF TrackerRejects(~RowStored(auth, ins)) THEN Caught(saved, r, run)
                     ELSE Continued(saved, r, run)
    /\ UNCHANGED <<logs, retry, fb, cache, tasks, track, sec, san, fn>>

\* { maxAttempts: 3 }
PipelineMaxAttempts == 3

\* attempt++
NextAttemptStuck(attempt) == attempt
NextAttempt(attempt) == attempt + 1

\* return await operation() of withRetry settles: the operation resolved, and
\* so does withRetry, or it threw and logError is called
RetryInvoked(r, field, next, progress, wait) ==
    \E ok \in BOOLEAN :
      LET run == ui.runs[r]
      IN ui' = IF ok
               THEN Goes([ ui EXCEPT !.files = SetProgress(@, run.fileId, progress) ],
                         r, [ run EXCEPT ![field] = "ok", !.attempt = 1 ], next)
               ELSE Goes(ui, r, run, wait)

\* await logError(...) of withRetry settles and, unless this was the last
\* attempt, so does the sleep: the last error is thrown or the operation is
\* invoked again
RetryWaited(r, field, again) ==
    \E auth \in AuthOutcomes, ins \in InsertOutcomes, error \in Errors :
      LET run == ui.runs[r]
          gaveUp == [ run EXCEPT ![field] = "rejected", !.attempt = 1 ]
      IN ui' = IF LogErrorRejects(auth, ins) THEN Caught(ui, r, gaveUp)
               ELSE IF Breaks(run.attempt, PipelineMaxAttempts, error)
               THEN Caught(ui, r, gaveUp)
               ELSE IF LoopContinues(NextAttempt(run.attempt), PipelineMaxAttempts)
               THEN Goes(ui, r, [ run EXCEPT !.attempt = NextAttempt(@) ], again)
               ELSE Caught(ui, r, gaveUp)

\* await uploadOperation: an invocation of uploadDocument settles
pipelineUpload(r) ==
    /\ ui.runs[r].pc = "upload"
    /\ RetryInvoked(r, "upload", "checkpoint2", 20, "uploadRetry")
    /\ UNCHANGED <<logs, retry, fb, cache, tasks, track, sec, san, fn>>

\* await uploadOperation: the log and the backoff after a failed upload settle
pipelineUploadRetry(r) ==
    /\ ui.runs[r].pc = "uploadRetry"
    /\ RetryWaited(r, "upload", "upload")
    /\ UNCHANGED <<logs, retry, fb, cache, tasks, track, sec, san, fn>>

\* await createDocOperation: an invocation of createDocument settles
pipelineDocument(r) ==
    /\ ui.runs[r].pc = "document"
    /\ RetryInvoked(r, "document", "checkpoint3", 40, "documentRetry")
    /\ UNCHANGED <<logs, retry, fb, cache, tasks, track, sec, san, fn>>

\* await createDocOperation: the log and the backoff after a failed insert
\* settle
pipelineDocumentRetry(r) ==
    /\ ui.runs[r].pc = "documentRetry"
    /\ RetryWaited(r, "document", "document")
    /\ UNCHANGED <<logs, retry, fb, cache, tasks, track, sec, san, fn>>

\* raw_data of the extraction record the function inserts
FunctionRawData(invoked) ==
    CASE invoked = "extracted" -> "extracted"
      [] invoked = "unextracted" -> "null"
      [] OTHER -> "none"

\* if (error || !data?.success) throw
ProcessingThrows(invoked) == invoked = "failed"

\* return await primaryOperation() settles, and when it resolves the answer
\* is looked at
pipelinePrimary(r) ==
    /\ ui.runs[r].pc = "primary"
    /\ \E invoked \in InvokeOutcomes :
         LET run == [ ui.runs[r] EXCEPT !.primary = invoked,
                                        !.extraction = FunctionRawData(invoked) ]
         IN ui' = IF NeedsFallback(invoked # "throw") THEN Goes(ui, r, run, "logPrimary")
                  ELSE IF ProcessingThrows(invoked) THEN Caught(ui, r, run)
                  ELSE Goes(ui, r, run, "checkpoint4")
    /\ UNCHANGED <<logs, retry, fb, cache, tasks, track, sec, san, fn>>

\* await logError({ primaryError, ... }) settles and fallbackProcessing() is
\* invoked
pipelineLogPrimary(r) ==
    /\ ui.runs[r].pc = "logPrimary"
    /\ \E auth \in AuthOutcomes, ins \in InsertOutcomes :
         LET logged == auth # "throw" /\ ins = "ok"
             run == ui.runs[r]
         IN ui' = IF LogErrorRejects(auth, ins) THEN Caught(ui, r, run)
                  ELSE Goes(ui, r, [ run EXCEPT !.fallback = TRUE ], "fallbackLog")
    /\ UNCHANGED <<logs, retry, fb, cache, tasks, track, sec, san, fn>>

\* createLog: if (error) throw error; catch (error) { ...; throw error }
CreateLogRejectsNever(ins) == FALSE
CreateLogRejects(ins) == ins # "ok"

\* await createLog({ action: 'fallback_processing' }) settles
pipelineFallbackLog(r) ==
    /\ ui.runs[r].pc = "fallbackLog"
    /\ \E ins \in InsertOutcomes :
         LET run == ui.runs[r]
         IN ui' = IF CreateLogRejects(ins) THEN Goes(ui, r, run, "logFallback")
                  ELSE Goes(ui, r, run, "fallbackInsert")
    /\ UNCHANGED <<logs, retry, fb, cache, tasks, track, sec, san, fn>>

\* await supabase.from('extractions').insert({ raw_data: { fallback: true } })
\* settles; its { error } is not looked at
pipelineFallbackInsert(r) ==
    /\ ui.runs[r].pc = "fallbackInsert"
    /\ \E ins \in InsertOutcomes :
         LET run == [ ui.runs[r] EXCEPT !.insert = ins,
                                        !.extraction = IF ins = "ok" THEN "fallback" ELSE @ ]
         IN ui' = IF ins = "throw" THEN Goes(ui, r, run, "logFallback")
                  ELSE Goes(ui, r, run, "checkpoint4")
    /\ UNCHANGED <<logs, retry, fb, cache, tasks, track, sec, san, fn>>

\* await logError({ fallbackError, ... }) settles, then throw fallbackError
pipelineLogFallback(r) ==
    /\ ui.runs[r].pc = "logFallback"
    /\ \E auth \in AuthOutcomes, ins \in InsertOutcomes :
         LET logged == auth # "throw" /\ ins = "ok"
         IN ui' = Caught(ui, r, ui.runs[r])
    /\ UNCHANGED <<logs, retry, fb, cache, tasks, track, sec, san, fn>>

\* await logComplianceEvent({ action: 'document_processed' }) settles and the
\* success toast is shown
pipelineCompliance(r) ==
    /\ ui.runs[r].pc = "compliance"
    /\ \E logged \in BOOLEAN :
         LET run == ui.runs[r]
         IN ui' = IF ComplianceRejects(~logged) THEN Caught(ui, r, run)
                  ELSE [ ui EXCEPT
                           !.notices = Append(@, "Document processed successfully"),
                           !.runs[r] = [ run EXCEPT !.pc = "done",
                                           !.notice = "Document processed successfully" ] ]
    /\ UNCHANGED <<logs, retry, fb, cache, tasks, track, sec, san, fn>>

----------------------------------------------------------------------------
(* process-document: one request to the function.  Its pc is the await the  *)
(* handler is suspended at.                                                 *)

\* a supabase call settles: done, an { error } result, or a thrown failure
WriteOutcomes == {"ok", "error", "throw"}
\* a fetch settles: a response that is ok, one that is not, or a thrown failure
FetchOutcomes == {"ok", "notok", "throw"}
\* await parseurResponse.json(): an object, a value that is falsy, or a throw
ParseurBodies == {"data", "falsy", "throw"}
\* openaiResult.choices[0].message.content: a text, the empty text, or a
\* TypeError for a body without choices
OpenaiBodies == {"text", "empty", "throw"}

NoExtraction == [stored |-> FALSE, raw_data |-> "null", processed_data |-> "null"]

\* the handler about to await req.json(); the document was created with
\* upload_status 'pending'
NewCall(parseurApiKey, openaiApiKey) ==
    [ pc            |-> "request",
      parseurApiKey |-> parseurApiKey,   \* Deno.env.get('PARSEUR_API_KEY') is set
      openaiApiKey  |-> openaiApiKey,    \* Deno.env.get('OPENAI_API_KEY') is set
      extractedData |-> "null",
      analysisResult |-> "null",
      upload_status |-> "pending",       \* of the document's row
      rows          |-> << >>,           \* the actions of the rows inserted into processing_logs
      extraction    |-> NoExtraction,    \* the record inserted into extractions
      parseurCalled |-> FALSE,
      openaiCalled  |-> FALSE,
      failed        |-> {},              \* the kinds of call that failed
      response      |-> "none" ]         \* none, or the success field of the response

IdleCall == [ NewCall(FALSE, FALSE) EXCEPT !.pc = "idle" ]
NoCall == fn = IdleCall

FunctionInit == \E parseurApiKey, openaiApiKey \in BOOLEAN : fn = NewCall(parseurApiKey, openaiApiKey)

\* the outer catch: status 500 with { success: false, error }
Responds500(f, kind) ==
    [ f EXCEPT !.pc = "responded", !.response = "false", !.failed = @ \cup {kind} ]

\* a call that did not do its work
Failed(f, kind) == [ f EXCEPT !.failed = @ \cup {kind} ]

\* await supabase.from('processing_logs').insert({ action }) settled: the
\* row is there when the insert went through; its { error } is not looked at
Logged(f, action, w) ==
    IF w = "ok" THEN [ f EXCEPT !.rows = Append(@, action) ] ELSE Failed(f, "log")

\* await supabase.from('documents').update({ upload_status }) settled; its
\* { error } is not looked at
Updated(f, status, w) ==
    IF w = "ok" THEN [ f EXCEPT !.upload_status = status ] ELSE Failed(f, "update")

\* if (openaiApiKey && extractedData)
CallsOpenai(f) == f.openaiApiKey /\ f.extractedData = "data"

\* the handler past the Parseur step
AfterParseur(f) ==
    [ f EXCEPT !.pc = IF CallsOpenai(f) THEN "openai" ELSE "extraction" ]

\* await req.json() settles
functionRequest ==
    /\ fn.pc = "request"
    /\ \E parsed \in BOOLEAN :
         fn' = IF parsed THEN [ fn EXCEPT !.pc = "logStarted" ]
               ELSE Responds500(fn, "request")
    /\ UNCHANGED <<logs, retry, fb, cache, tasks, track, sec, san, ui>>

\* await insert({ action: 'processing_started' }) settles
functionLogStarted ==
    /\ fn.pc = "logStarted"
    /\ \E w \in WriteOutcomes :
         fn' = IF w = "throw" THEN Responds500(fn, "log")
               ELSE [ Logged(fn, "processing_started", w) EXCEPT !.pc = "markProcessing" ]
    /\ UNCHANGED <<logs, retry, fb, cache, tasks, track, sec, san, ui>>

\* await update({ upload_status: 'processing' }) settles; then
\* if (parseurApiKey) the download is awaited
functionMarkProcessing ==
    /\ fn.pc = "markProcessing"
    /\ \E w \in WriteOutcomes :
         fn' = IF w = "throw" THEN Responds500(fn, "update")
               ELSE LET f == Updated(fn, "processing", w)
                    IN IF f.pc = "responded" THEN f
                       ELSE IF f.parseurApiKey THEN [ f EXCEPT !.pc = "download" ]
                       ELSE AfterParseur(f)
    /\ UNCHANGED <<logs, retry, fb, cache, tasks, track, sec, san, ui>>

\* await supabase.storage.download(filePath) settles: with a downloadError or a
\* throw the catch of the Parseur step logs the failure
functionDownload ==
    /\ fn.pc = "download"
    /\ \E w \in WriteOutcomes :
         fn' = IF w = "ok" THEN [ fn EXCEPT !.pc = "parseur" ]
               ELSE [ Failed(fn, "parseur") EXCEPT !.pc = "parseurCaught" ]
    /\ UNCHANGED <<logs, retry, fb, cache, tasks, track, sec, san, ui>>

\* await fetch(parseur) and the await of its body settle
functionParseur ==
    /\ fn.pc = "parseur"
    /\ \E r \in FetchOutcomes, body \in ParseurBodies :
         LET f == [ fn EXCEPT !.parseurCalled = TRUE ]
         IN fn' = IF r = "throw" \/ body = "throw"
                  THEN [ Failed(f, "parseur") EXCEPT !.pc = "parseurCaught" ]
                  ELSE IF r = "notok"
                  THEN [ Failed(f, "parseur") EXCEPT !.pc = "parseurNotOk" ]
                  ELSE [ f EXCEPT !.extractedData = body, !.pc = "parseurLog" ]
    /\ UNCHANGED <<logs, retry, fb, cache, tasks, track, sec, san, ui>>

\* await insert({ action: 'parseur_extraction_completed' }) settles, inside
\* the try
functionParseurLog ==
    /\ fn.pc = "parseurLog"
    /\ \E w \in WriteOutcomes :
         fn' = IF w = "throw" THEN [ Failed(fn, "log") EXCEPT !.pc = "parseurCaught" ]
               ELSE AfterParseur(Logged(fn, "parseur_extraction_completed", w))
    /\ UNCHANGED <<logs, retry, fb, cache, tasks, track, sec, san, ui>>

\* await insert({ action: 'parseur_extraction_failed' }) of the else branch
\* settles, inside the try
functionParseurNotOk ==
    /\ fn.pc = "parseurNotOk"
    /\ \E w \in WriteOutcomes :
         fn' = IF w = "throw" THEN [ Failed(fn, "log") EXCEPT !.pc = "parseurCaught" ]
               ELSE AfterParseur(Logged(fn, "parseur_extraction_failed", w))
    /\ UNCHANGED <<logs, retry, fb, cache, tasks, track, sec, san, ui>>

\* await insert({ action: 'parseur_extraction_failed' }) of the catch settles
functionParseurCaught ==
    /\ fn.pc = "parseurCaught"
    /\ \E w \in WriteOutcomes :
         fn' = IF w = "throw" THEN Responds500(fn, "log")
               ELSE AfterParseur(Logged(fn, "parseur_extraction_failed", w))
    /\ UNCHANGED <<logs, retry, fb, cache, tasks, track, sec, san, ui>>

\* await fetch(openai) and the await of its body settle
functionOpenai ==
    /\ fn.pc = "openai"
    /\ \E r \in FetchOutcomes, body \in OpenaiBodies :
         LET f == [ fn EXCEPT !.openaiCalled = TRUE ]
         IN fn' = IF r = "throw" \/ body = "throw"
                  THEN [ Failed(f, "openai") EXCEPT !.pc = "openaiCaught" ]
                  ELSE IF r = "notok"
                  THEN [ Failed(f, "openai") EXCEPT !.pc = "openaiNotOk" ]
                  ELSE [ f EXCEPT !.analysisResult = body, !.pc = "openaiLog" ]
    /\ UNCHANGED <<logs, retry, fb, cache, tasks, track, sec, san, ui>>

\* await insert({ action: 'openai_analysis_completed' }) settles, inside the
\* try
functionOpenaiLog ==
    /\ fn.pc = "openaiLog"
    /\ \E w \in WriteOutcomes :
         fn' = IF w = "throw" THEN [ Failed(fn, "log") EXCEPT !.pc = "openaiCaught" ]
               ELSE [ Logged(fn, "openai_analysis_completed", w) EXCEPT !.pc = "extraction" ]
    /\ UNCHANGED <<logs, retry, fb, cache, tasks, track, sec, san, ui>>

\* await insert({ action: 'openai_analysis_failed' }) of the else branch
\* settles, inside the try
functionOpenaiNotOk ==
    /\ fn.pc = "openaiNotOk"
    /\ \E w \in WriteOutcomes :
         fn' = IF w = "throw" THEN [ Failed(fn, "log") EXCEPT !.pc = "openaiCaught" ]
               ELSE [ Logged(fn, "openai_analysis_failed", w) EXCEPT !.pc = "extraction" ]
    /\ UNCHANGED <<logs, retry, fb, cache, tasks, track, sec, san, ui>>

\* await insert({ action: 'openai_analysis_failed' }) of the catch settles
functionOpenaiCaught ==
    /\ fn.pc = "openaiCaught"
    /\ \E w \in WriteOutcomes :
         fn' = IF w = "throw" THEN Responds500(fn, "log")
               ELSE [ Logged(fn, "openai_analysis_failed", w) EXCEPT !.pc = "extraction" ]
    /\ UNCHANGED <<logs, retry, fb, cache, tasks, track, sec, san, ui>>

\* processed_data: analysisResult ? { analysis: analysisResult } : null
ProcessedData(analysisResult) == IF analysisResult = "text" THEN "analysis" ELSE "null"

\* await insert into extractions settles; if (extractionError) throw
functionExtraction ==
    /\ fn.pc = "extraction"
    /\ \E w \in WriteOutcomes :
         fn' = IF w = "ok"
               THEN [ fn EXCEPT !.extraction = [ stored |-> TRUE,
                                                 raw_data |-> fn.extractedData,
                                                 processed_data |->
                                                     ProcessedData(fn.analysisResult) ],
                                !.pc = "markCompleted" ]
               ELSE Responds500(fn, "extraction")
    /\ UNCHANGED <<logs, retry, fb, cache, tasks, track, sec, san, ui>>

\* await update({ upload_status: 'completed' }) settles
functionMarkCompleted ==
    /\ fn.pc = "markCompleted"
    /\ \E w \in WriteOutcomes :
         fn' = IF w = "throw" THEN Responds500(fn, "update")
               ELSE LET f == Updated(fn, "completed", w)
                    IN IF f.pc = "responded" THEN f ELSE [ f EXCEPT !.pc = "logCompleted" ]
    /\ UNCHANGED <<logs, retry, fb, cache, tasks, track, sec, san, ui>>

\* await insert({ action: 'processing_completed' }) settles and the response
\* with success: true is returned
functionLogCompleted ==
    /\ fn.pc = "logCompleted"
    /\ \E w \in WriteOutcomes :
         fn' = IF w = "throw" THEN Responds500(fn, "log")
               ELSE [ Logged(fn, "processing_completed", w)
                        EXCEPT !.pc = "responded", !.response = "true" ]
    /\ UNCHANGED <<logs, retry, fb, cache, tasks, track, sec, san, ui>>

----------------------------------------------------------------------------
(* Specifications *)

NoExport ==
    san = [ pc |-> "none", input |-> ScalarValue(<<"undefined">>),
            once |-> ScalarValue(<<"undefined">>), twice |-> ScalarValue(<<"undefined">>) ]

\* a call of the retry / fallback executor: the rows already in the table
\* play no part
Init ==
    /\ logs = << >>
    /\ RetryInit /\ FallbackInit /\ TrackerInit /\ SecInit /\ NoExport /\ UiInit /\ NoCall

\* an export of one value
InitSanitize ==
    /\ logs = << >>
    /\ RetryInit /\ FallbackInit /\ TrackerInit /\ SecInit /\ SanInit /\ UiInit /\ NoCall

\* the tracker after a page load
InitTracker ==
    /\ logs \in InitialTables
    /\ RetryInit /\ FallbackInit /\ TrackerInit /\ SecInit /\ NoExport /\ UiInit /\ NoCall

\* one call of withRetry
RetryNext ==
    \/ withRetryCall
    \/ withRetryInvoke
    \/ withRetryLog
    \/ withRetrySleep

SpecRetry == Init /\ [][RetryNext]_vars

\* one call of a fallback handler
FallbackNext ==
    \/ fallbackHandlerCall
    \/ fallbackHandlerPrimary
    \/ fallbackHandlerLogPrimary
    \/ fallbackHandlerFallback
    \/ fallbackHandlerLogFallback

SpecFallback == Init /\ [][FallbackNext]_vars

\* concurrent operations on the progress tracker
TrackerNext ==
    \/ \E t \in Tasks :
         \/ createProcessingSession(t)
         \/ createCheckpointCall(t)
         \/ resumeProcessingCall(t)
         \/ loadProgressCall(t)
         \/ setStatusCall(t)
         \/ saveProgressCall(t)
         \/ loadProgressQuery(t)
         \/ saveProgressAuth(t)
         \/ saveProgressInsert(t)
         \/ saveProgressSet(t)

SpecTracker == InitTracker /\ [][TrackerNext]_vars

\* one call of logComplianceEvent
SecurityNext ==
    \/ logComplianceEventCall
    \/ validateDocumentSecurityCall
    \/ logComplianceEventAuth
    \/ logComplianceEventInsert

SpecSecurity == Init /\ [][SecurityNext]_vars

\* sanitizeForExport applied once, then again
SanitizeNext ==
    \/ sanitizeForExportCall
    \/ sanitizeForExportAgain

SpecSanitize == InitSanitize /\ [][SanitizeNext]_vars

\* the document queue: batches are dropped and the tasks they start run
OrchestratorNext ==
    \/ processFiles
    \/ \E r \in 1 .. Len(ui.runs) :
         \/ pipelineAuth(r)
         \/ pipelineSession(r)
         \/ pipelineScan(r)
         \/ pipelineCheckpoint(r)
         \/ pipelineCheckpointSave(r)
         \/ pipelineUpload(r)
         \/ pipelineUploadRetry(r)
         \/ pipelineDocument(r)
         \/ pipelineDocumentRetry(r)
         \/ pipelinePrimary(r)
         \/ pipelineLogPrimary(r)
         \/ pipelineFallbackLog(r)
         \/ pipelineFallbackInsert(r)
         \/ pipelineLogFallback(r)
         \/ pipelineCompliance(r)

SpecOrchestrator == Init /\ [][OrchestratorNext]_vars

\* the await the r-th task stands at settles and the task runs on to its next
\* await
pipelineStep(r) ==
    /\ r \in 1 .. Len(ui.runs)
    /\ \/ pipelineAuth(r)
       \/ pipelineSession(r)
       \/ pipelineScan(r)
       \/ pipelineCheckpoint(r)
       \/ pipelineCheckpointSave(r)
       \/ pipelineUpload(r)
       \/ pipelineUploadRetry(r)
       \/ pipelineDocument(r)
       \/ pipelineDocumentRetry(r)
       \/ pipelinePrimary(r)
       \/ pipelineLogPrimary(r)
       \/ pipelineFallbackLog(r)
       \/ pipelineFallbackInsert(r)
       \/ pipelineLogFallback(r)
       \/ pipelineCompliance(r)

\* the queue once a batch of PDFs whose ids differ was dropped
InitTasks ==
    /\ logs = << >>
    /\ RetryInit /\ FallbackInit /\ TrackerInit /\ SecInit /\ NoExport /\ NoCall
    /\ LET fileList == [ k \in 1 .. MaxBatch |-> File(k, PdfType) ]
       IN ui = [ batches |-> << fileList >>,
                 files |-> [ k \in 1 .. MaxBatch |-> QueueEntry(fileList[k], Id(k)) ],
                 notices |-> << >>,
                 runs |-> [ k \in 1 .. MaxBatch |-> NewRun(fileList[k], Id(k)) ],
                 cache |-> << >> ]

TasksNext == \E r \in 1 .. Len(ui.runs) : pipelineStep(r)

\* the tasks of such a batch: every external call a task awaits returns or
\* throws in the end, and the event loop then runs the task on, so while some
\* await is pending one settles
SpecTasksFair == InitTasks /\ [][TasksNext]_vars /\ WF_vars(TasksNext)

\* a request to the process-document function
InitFunction ==
    /\ logs = << >>
    /\ RetryInit /\ FallbackInit /\ TrackerInit /\ SecInit /\ NoExport /\ UiInit
    /\ FunctionInit

FunctionNext ==
    \/ functionRequest
    \/ functionLogStarted
    \/ functionMarkProcessing
    \/ functionDownload
    \/ functionParseur
    \/ functionParseurLog
    \/ functionParseurNotOk
    \/ functionParseurCaught
    \/ functionOpenai
    \/ functionOpenaiLog
    \/ functionOpenaiNotOk
    \/ functionOpenaiCaught
    \/ functionExtraction
    \/ functionMarkCompleted
    \/ functionLogCompleted

SpecFunction == InitFunction /\ [][FunctionNext]_vars

Next ==
    \/ RetryNext \/ FallbackNext \/ TrackerNext
    \/ SecurityNext \/ SanitizeNext \/ OrchestratorNext \/ FunctionNext

Spec == Init /\ [][Next]_vars

----------------------------------------------------------------------------
(* Properties of withRetry and createFallbackHandler *)

AllFailed(h) == \A i \in 1 .. Len(h) : ~h[i].ok

\* C1: withRetry invokes the operation exactly maxAttempts times and then
\* rejects when every invocation fails; when the operation first succeeds on
\* its k-th invocation (k <= maxAttempts) it is invoked exactly k times, never
\* again after the success, and withRetry resolves to that invocation's result.
\* (maxAttempts is a count here: zero or more.)
C1_RetryInvocations ==
    LET h == retry.hist
        m == retry.maxAttempts
    IN /\ \A i \in 1 .. Len(h) : h[i].ok => (i = Len(h) /\ retry.pc = "resolved")
       /\ (retry.pc = "resolved") =>
             /\ Len(h) >= 1 /\ Len(h) <= m
             /\ Last(h).ok
             /\ retry.result = Last(h).val
       /\ (retry.pc = "rejected" /\ m >= 0) =>
             /\ Len(h) = m
             /\ AllFailed(h)
       /\ (retry.pc \in {"call", "log", "sleep"}) =>
             /\ AllFailed(h)
             /\ Len(h) <= m
             /\ (retry.pc = "call") => Len(h) < m

\* the operation failed once and succeeded on its second invocation, with
\* attempts left
C1_Witness ==
    /\ retry.pc = "resolved"
    /\ Len(retry.hist) = 2
    /\ retry.maxAttempts = 3

\* C2: when withRetry has used up its attempts it rejects with the error of
\* the last (maxAttempts-th) invocation, and it resolves only when an
\* invocation succeeded, whatever becomes of the logError writes.
C2_RethrowsLastError ==
    LET h == retry.hist
        m == retry.maxAttempts
    IN /\ (retry.pc = "rejected" /\ m >= 1) =>
             /\ Len(h) = m
             /\ ~h[m].ok
             /\ retry.thrown = h[m].val
       /\ (retry.pc = "resolved") => \E i \in 1 .. Len(h) : h[i].ok

\* three attempts failed with a different error first and last, and no
\* logError call wrote a row
C2_Witness ==
    /\ retry.pc = "rejected"
    /\ retry.maxAttempts = 3
    /\ Len(retry.logCalls) = 3
    /\ logs = << >>
    /\ retry.hist[1].val # retry.hist[3].val

\* error.message, character by character, and error.name
ErrorMessage(e) ==
    CASE e = "network timeout" ->
           <<"n", "e", "t", "w", "o", "r", "k", " ", "t", "i", "m", "e", "o", "u", "t">>
      [] e = "validation failed" ->
           <<"v", "a", "l", "i", "d", "a", "t", "i", "o", "n", " ", "f", "a", "i", "l", "e", "d">>
      [] e = "rate limit exceeded" ->
           <<"r", "a", "t", "e", " ", "l", "i", "m", "i", "t", " ", "e", "x", "c", "e", "e", "d", "e", "d">>
ErrorName(e) == <<"E", "r", "r", "o", "r">>

\* retryablePatterns: each a word and whether it has the i flag
RetryablePatterns ==
    << [word |-> <<"n", "e", "t", "w", "o", "r", "k">>, fold |-> TRUE],
       [word |-> <<"t", "i", "m", "e", "o", "u", "t">>, fold |-> TRUE],
       [word |-> <<"r", "a", "t", "e", " ", "l", "i", "m", "i", "t">>, fold |-> TRUE],
       [word |-> <<"t", "e", "m", "p", "o", "r", "a", "r", "y">>, fold |-> TRUE],
       [word |-> <<"5", "0", "2">>, fold |-> FALSE],
       [word |-> <<"5", "0", "3">>, fold |-> FALSE],
       [word |-> <<"5", "0", "4">>, fold |-> FALSE] >>

\* pattern.test(text)
PatternTest(pattern, text) ==
    \E i \in 1 .. Len(text) : LiteralAt(text, i, pattern.word, pattern.fold) > 0

\* isRetryableError(error)
isRetryableError(e) ==
    \E k \in 1 .. Len(RetryablePatterns) :
      \/ PatternTest(RetryablePatterns[k], ErrorMessage(e))
      \/ PatternTest(RetryablePatterns[k], ErrorName(e))

\* how many invocations of a history failed
Failures(h) == Cardinality({ i \in 1 .. Len(h) : ~h[i].ok })

\* C19: withRetry's decision to retry does not depend on the error's class.
\* The numbers of invocations, of logError calls and of sleeps are fixed by
\* maxAttempts and by which invocations failed: every failure before the
\* cap is logged, slept on and followed by another invocation, whether
\* isRetryableError holds of its error or not; so two operations failing on
\* the same attempts get the same numbers, whatever their errors.
C19_RetryIgnoresErrorClass ==
    LET h == retry.hist
        m == retry.maxAttempts
        f == Failures(h)
        pc == retry.pc
    IN /\ Len(retry.logCalls) = (IF pc = "log" THEN f - 1 ELSE f)
       /\ Len(retry.sleeps) = (CASE pc \in {"log", "sleep"} -> f - 1
                                 [] pc = "rejected" /\ f > 0 -> f - 1
                                 [] OTHER -> f)
       /\ (pc = "resolved") => Len(h) = f + 1
       /\ (pc = "rejected" /\ m >= 0) => (Len(h) = m /\ f = m)
       /\ \A i \in 1 .. Len(h) :
            (~h[i].ok /\ i < m) => (i < Len(h) \/ pc \in {"log", "sleep", "call"})

\* a failure that isRetryableError rejects and one it accepts were both
\* retried, and the third invocation succeeded
C19_Witness ==
    /\ retry.pc = "resolved"
    /\ Len(retry.hist) = 3
    /\ ~isRetryableError(retry.hist[1].val)
    /\ isRetryableError(retry.hist[2].val)
    /\ Len(retry.logCalls) = 2
    /\ Len(retry.sleeps) = 2

\* the step that follows a failed invocation
AfterFailure == retry.pc = "log" /\ retry' # retry

\* C21: in withRetry every failed invocation, the final one included, is
\* followed at once by exactly one logError call carrying that attempt's
\* number and maxAttempts; a backoff sleep follows only a failed attempt that
\* is not the last. A run that uses up its attempts with f failures makes f
\* logError calls and f - 1 sleeps; one that succeeds on attempt k makes
\* k - 1 calls and k - 1 sleeps.
C21_LogCalls ==
    LET h == retry.hist
        m == retry.maxAttempts
        f == Failures(h)
    IN /\ \A i \in 1 .. Len(retry.logCalls) :
            /\ i <= Len(h) /\ ~h[i].ok
            /\ retry.logCalls[i] = [attempt |-> i, maxAttempts |-> m]
       /\ \A i \in 1 .. Len(retry.sleeps) :
            /\ i < m /\ i <= Len(retry.logCalls)
            /\ \E j \in Jitters : retry.sleeps[i] = Delay(i) + j
       /\ (retry.pc = "rejected" /\ m >= 1) =>
            /\ f = m
            /\ Len(retry.logCalls) = f
            /\ Len(retry.sleeps) = f - 1
       /\ (retry.pc = "resolved") =>
            /\ Len(retry.logCalls) = Len(h) - 1
            /\ Len(retry.sleeps) = Len(h) - 1

C21_LogStep ==
    AfterFailure =>
      /\ retry'.logCalls = Append(retry.logCalls, [attempt     |-> Len(retry.hist),
                                                    maxAttempts |-> retry.maxAttempts])
      /\ retry'.hist = retry.hist
      /\ retry'.sleeps = retry.sleeps
      /\ retry'.pc = (IF Len(retry.hist) = retry.maxAttempts THEN "rejected" ELSE "sleep")

C21_LogThenSleep == []C21_LogCalls /\ [][C21_LogStep]_vars

\* two attempts, both failed: two logError calls and one sleep
C21_Witness ==
    /\ retry.pc = "rejected"
    /\ retry.maxAttempts = 2
    /\ Len(retry.logCalls) = 2
    /\ Len(retry.sleeps) = 1

\* C30: withRetry called with maxAttempts <= 0 never invokes the operation,
\* writes no log entry, performs no sleep, and rejects with an undefined
\* error value instead of resolving.
C30_NoAttempts ==
    (retry.pc # "start" /\ retry.maxAttempts <= 0) =>
      /\ retry.pc = "rejected"
      /\ retry.hist = << >>
      /\ retry.logCalls = << >>
      /\ retry.sleeps = << >>
      /\ logs = << >>
      /\ retry.thrown = Undefined
      /\ retry.result = Undefined

\* a call with maxAttempts = 0 has rejected
C30_Witness ==
    /\ retry.pc = "rejected"
    /\ retry.maxAttempts = 0
    /\ retry.hist = << >>

\* C3: the callable of createFallbackHandler invokes primary exactly once,
\* fallback at most once and only after primary threw, and ends in exactly
\* one of: primary's result, fallback's result, a rejection with the
\* fallback's error.
C3_FallbackOutcome ==
    /\ fb.primaryCalls = (IF fb.pc = "start" THEN 0 ELSE 1)
    /\ fb.fallbackCalls \in {0, 1}
    /\ (fb.fallbackCalls = 1) => (~fb.primary.ok /\ fb.primary.val \in Errors)
    /\ (fb.pc = "resolved") =>
          /\ fb.thrown = Undefined
          /\ \/ /\ fb.primary.ok
                /\ fb.result = fb.primary.val
                /\ fb.fallbackCalls = 0
             \/ /\ ~fb.primary.ok
                /\ fb.fallbackCalls = 1
                /\ fb.fallback.ok
                /\ fb.result = fb.fallback.val
    /\ (fb.pc = "rejected") =>
          /\ fb.result = Undefined
          /\ ~fb.primary.ok
          /\ fb.fallbackCalls = 1
          /\ ~fb.fallback.ok
          /\ fb.fallback.val \in Errors
          /\ fb.thrown = fb.fallback.val

\* both operations threw, each its own error
C3_Witness ==
    /\ fb.pc = "rejected"
    /\ fb.primary.val # fb.fallback.val

----------------------------------------------------------------------------
(* Properties of the progress tracker.  A property of one operation is a    *)
(* property of the steps its task takes: the unprimed task record holds     *)
(* what the call had loaded and was about to save.                          *)

\* task t is the one a call starts on in this step
CallStep(t) == Free(t) /\ track'.started = track.started + 1

\* task t takes this step
Acts(t) == CallStep(t) \/ (Busy(t) /\ tasks'[t] # tasks[t])

\* the call that task t runs settles in this step
Completes(t) == Acts(t) /\ tasks'[t].pc = "done"

\* the call of op that task t has been running settles in this step
Settles(t, op) == Busy(t) /\ tasks[t].op = op /\ tasks'[t].pc = "done"

\* id has a session with a defined <field> before and after the step
Tracked(id, field) ==
    /\ id \in DOMAIN cache /\ field \notin cache[id].bad
    /\ id \in DOMAIN cache' /\ field \notin cache'[id].bad

AllowedTransition(a, b) ==
    \/ a = b
    \/ a = "running" /\ b \in {"completed", "failed", "paused"}
    \/ a = "paused" /\ b = "running"

\* C4: whatever the tracker operations on a session do (a checkpoint
\* continuation, resumeProcessing, a saveProgress call that sets a status
\* explicitly), its status changes only running -> completed, running ->
\* failed, running -> paused or paused -> running; a failed or completed
\* session never returns to running.
C4_StatusTransitions ==
    [][ \A t \in Tasks, id \in Ids :
          ( /\ Acts(t)
            /\ tasks'[t].op \in {"checkpoint", "resume", "setStatus"}
            /\ Tracked(id, "status") )
          => AllowedTransition(cache[id].status, cache'[id].status) ]_vars

\* C5: while only checkpoint continuations and resumeProcessing calls run on
\* a session, in any interleaving, its completedSteps never decreases when
\* one of them writes its snapshot back.
C5_CompletedStepsMonotonic ==
    [][ \A t \in Tasks, id \in Ids :
          ( /\ Acts(t)
            /\ tasks[t].pc = "set"
            /\ \A u \in Tasks : tasks'[u].op \in {"idle", "checkpoint", "resume"}
            /\ Tracked(id, "completed_steps") )
          => cache'[id].completedSteps >= cache[id].completedSteps ]_vars

\* res is old overlaid key by key with new: the keys of new have new's values,
\* the keys of old that new lacks keep old's values, and there are no others
IsOverlay(res, old, new) ==
    /\ res.def
    /\ DOMAIN res.kv = DOMAIN old.kv \cup DOMAIN new.kv
    /\ \A k \in DOMAIN new.kv : res.kv[k] = new.kv[k]
    /\ \A k \in DOMAIN old.kv \ DOMAIN new.kv : res.kv[k] = old.kv[k]

\* the session a checkpoint continuation is to leave, given the one it loaded
CheckpointResult(new, old, stepName, metadata) ==
    /\ "completed_steps" \notin new.bad
    /\ new.completedSteps = old.completedSteps + 1
    /\ {"current_step", "last_checkpoint"} \cap new.bad = {}
    /\ new.currentStep = stepName
    /\ new.lastCheckpoint = stepName
    /\ IsOverlay(new.metadata, old.metadata, metadata)

\* nothing wrote the session of task t since t loaded it, and no other call
\* is saving to it
NoConcurrentWriter(t) ==
    /\ tasks[t].id \in DOMAIN cache
    /\ cache[tasks[t].id] = tasks[t].snap
    /\ \A u \in Tasks \ {t} :
         ~(tasks[u].id = tasks[t].id /\ tasks[u].pc \in {"auth", "insert", "set"})

\* a checkpoint continuation settles, having found a session with a numeric
\* completedSteps, with no concurrent writer
CheckpointSettles(t) ==
    /\ Settles(t, "checkpoint")
    /\ tasks'[t].found
    /\ "completed_steps" \notin tasks[t].snap.bad
    /\ NoConcurrentWriter(t)

\* C6: a checkpoint continuation run on an existing session, with no
\* concurrent writer, leaves the session with completedSteps one more than
\* before, currentStep and lastCheckpoint equal to stepName, and the metadata
\* the previous metadata overlaid key by key with the new metadata.
C6_CheckpointPostcondition ==
    [][ \A t \in Tasks :
          CheckpointSettles(t)
          => /\ tasks[t].id \in DOMAIN cache'
             /\ CheckpointResult(cache'[tasks[t].id], tasks[t].snap,
                                 tasks[t].stepName, tasks[t].metadata) ]_vars

\* C6 (amended): the same, when the saveProgress call of the continuation got
\* a user and its insert did not throw; when it did not, the continuation
\* still resolves and the cache is as it was.
C6_CheckpointWhenSaved ==
    [][ \A t \in Tasks :
          CheckpointSettles(t)
          => /\ tasks'[t].out = "resolved"
             /\ tasks'[t].saveCalls = 1
             /\ IF tasks'[t].saved
                THEN /\ tasks[t].id \in DOMAIN cache'
                     /\ CheckpointResult(cache'[tasks[t].id], tasks[t].snap,
                                         tasks[t].stepName, tasks[t].metadata)
                ELSE cache' = cache ]_vars

\* a continuation made with { file_path: p1 } has run on the session that held
\* { file_path: p2, document_id: x } after one checkpoint
C6_Witness ==
    \E t \in Tasks :
      /\ tasks[t].op = "checkpoint" /\ tasks[t].pc = "done" /\ tasks[t].saved
      /\ tasks[t].id \in DOMAIN cache
      /\ cache[tasks[t].id].completedSteps = 2
      /\ cache[tasks[t].id].lastCheckpoint = "file_uploaded"
      /\ cache[tasks[t].id].metadata.kv =
            ("file_path" :> "p1") @@ ("document_id" :> "x")

\* the cache holds, for id, the session createProcessingSession describes
IsCreatedSession(c, id, doc, total) ==
    /\ id \in DOMAIN c
    /\ c[id].bad = {}
    /\ c[id].documentId = doc
    /\ c[id].totalSteps = total
    /\ c[id].completedSteps = 0
    /\ c[id].status = "running"
    /\ c[id].currentStep = "initialized"
    /\ c[id].lastCheckpoint = "initialized"

\* C7: when createProcessingSession(documentId, totalSteps) returns its id,
\* it has made exactly one saveProgress call, and loadProgress(id) - which
\* answers from the cache - gives a session with completedSteps = 0, status
\* running, currentStep = lastCheckpoint = "initialized" and the given
\* totalSteps and documentId.
C7_CreatedSessionLoads ==
    [][ \A t \in Tasks :
          Settles(t, "create")
          => /\ tasks'[t].ret = "id"
             /\ tasks'[t].saveCalls = 1
             /\ IsCreatedSession(cache', tasks[t].id, tasks[t].doc,
                                 tasks[t].totalSteps) ]_vars

\* C7 (amended): the id is returned after exactly one saveProgress call; the
\* session is there to load when that call got a user and its insert did not
\* throw, and otherwise the cache is as it was.
C7_CreatedSessionWhenSaved ==
    [][ \A t \in Tasks :
          Settles(t, "create")
          => /\ tasks'[t].ret = "id"
             /\ tasks'[t].saveCalls = 1
             /\ IF tasks'[t].saved
                THEN IsCreatedSession(cache', tasks[t].id, tasks[t].doc,
                                      tasks[t].totalSteps)
                ELSE cache' = cache ]_vars

\* createProcessingSession(d1, 2) has returned and its session is cached
C7_Witness ==
    \E t \in Tasks :
      /\ tasks[t].op = "create" /\ tasks[t].pc = "done" /\ tasks[t].saved
      /\ tasks[t].ret = "id"
      /\ IsCreatedSession(cache, tasks[t].id, "d1", 2)

\* C8: no tracker operation rejects, whatever the user lookup, the insert and
\* the query do: a call that has settled has resolved.
C8_TrackerNeverRejects ==
    \A t \in Tasks :
      /\ tasks[t].out # "rejected"
      /\ (tasks[t].pc = "done") => (tasks[t].out = "resolved")

\* a query threw under loadProgress, and a save failed under another call
C8_Witness ==
    /\ \E t \in Tasks :
         /\ tasks[t].op = "load" /\ tasks[t].pc = "done"
         /\ tasks[t].q = "throw" /\ tasks[t].out = "resolved"
    /\ \E t \in Tasks :
         /\ tasks[t].op \in {"create", "checkpoint", "resume"}
         /\ tasks[t].pc = "done" /\ tasks[t].saveCalls = 1
         /\ ~tasks[t].saved /\ tasks[t].out = "resolved"

\* the progress_update rows of the table whose details.id is id
RowsOf(id) ==
    { i \in 1 .. Len(logs) :
        logs[i].action = "progress_update" /\ logs[i].details.id = id }

\* the most recent of them
LatestRowOf(id) == logs[CHOOSE i \in RowsOf(id) : \A j \in RowsOf(id) : j <= i]

\* a row's details have every required field with the right type
WellFormedRow(row) == RequiredFields \cap row.details.bad = {}

\* session is the one the row describes
BuiltFromRow(session, row) ==
    /\ session.bad = {}
    /\ session.documentId = row.document_id
    /\ session.currentStep = row.details.current_step
    /\ session.totalSteps = row.details.total_steps
    /\ session.completedSteps = row.details.completed_steps
    /\ session.status = row.details.status
    /\ session.lastCheckpoint = row.details.last_checkpoint
    /\ session.metadata = row.details.metadata

\* the step caches session for id and nothing else
CachesOnly(id, session) ==
    /\ DOMAIN cache' = DOMAIN cache \cup {id}
    /\ cache'[id] = session
    /\ \A x \in DOMAIN cache \ {id} : cache'[x] = cache[x]

\* C9: loadProgress(id) returns the cached session, without a query, when the
\* cache holds id.  On a miss it queries, and returns and caches the session
\* built from the most recent progress_update row with details.id = id; when
\* there is no such row, the query fails, or the row's details lack a
\* required field, it returns null and leaves the cache as it was.
C9_LoadProgress ==
    [][ \A t \in Tasks :
          /\ (CallStep(t) /\ tasks'[t].op = "load") =>
                IF tasks'[t].id \in DOMAIN cache
                THEN /\ tasks'[t].pc = "done"
                     /\ tasks'[t].ret = "session"
                     /\ tasks'[t].snap = cache[tasks'[t].id]
                     /\ ~tasks'[t].queried
                     /\ cache' = cache
                ELSE /\ tasks'[t].pc = "query"
                     /\ tasks'[t].queried
                     /\ cache' = cache
          /\ (Acts(t) /\ tasks[t].op = "load" /\ tasks[t].pc = "query") =>
                LET id == tasks[t].id
                    usable == /\ tasks'[t].q = "ok"
                              /\ RowsOf(id) # {}
                              /\ WellFormedRow(LatestRowOf(id))
                IN /\ tasks'[t].pc = "done"
                   /\ IF usable
                      THEN /\ tasks'[t].ret = "session"
                           /\ BuiltFromRow(tasks'[t].snap, LatestRowOf(id))
                           /\ CachesOnly(id, tasks'[t].snap)
                      ELSE /\ tasks'[t].ret = "null"
                           /\ cache' = cache ]_vars

\* loadProgress missed the cache and returned the session of the latest of
\* three rows, now cached
C9_Witness ==
    \E t \in Tasks :
      /\ tasks[t].op = "load" /\ tasks[t].pc = "done"
      /\ tasks[t].queried /\ tasks[t].q = "ok"
      /\ tasks[t].ret = "session"
      /\ tasks[t].snap.status = "paused"
      /\ Len(logs) = 3
      /\ tasks[t].id \in DOMAIN cache
      /\ cache[tasks[t].id] = tasks[t].snap

\* new is old with status running, every other field as it was
SameButRunning(new, old) ==
    /\ new.status = "running"
    /\ "status" \notin new.bad
    /\ new.bad = old.bad \ {"status"}
    /\ new.documentId = old.documentId
    /\ new.currentStep = old.currentStep
    /\ new.totalSteps = old.totalSteps
    /\ new.completedSteps = old.completedSteps
    /\ new.lastCheckpoint = old.lastCheckpoint
    /\ new.metadata = old.metadata

\* resumeProcessing(id) settles with false exactly when it found no session
\* or one whose status is completed (the session it found is the cached one)
ResumeAnswer(t) ==
    /\ tasks'[t].ret \in {"true", "false"}
    /\ (tasks'[t].ret = "false") =>
          \/ ~tasks'[t].found
          \/ /\ tasks'[t].id \in DOMAIN cache'
             /\ cache'[tasks'[t].id].status = "completed"
    /\ (tasks'[t].ret = "true") =>
          /\ tasks'[t].found
          /\ tasks[t].snap.status # "completed"

\* C10: resumeProcessing(id) returns false, changing neither cache nor log,
\* when the session is absent or completed; otherwise it returns true and
\* leaves the session with status running and every other field equal to the
\* loaded snapshot.
C10_ResumeFrame ==
    [][ \A t \in Tasks :
          (Completes(t) /\ tasks'[t].op = "resume")
          => /\ ResumeAnswer(t)
             /\ (tasks'[t].ret = "false") => (cache' = cache /\ logs' = logs)
             /\ (tasks'[t].ret = "true") =>
                   /\ tasks[t].id \in DOMAIN cache'
                   /\ SameButRunning(cache'[tasks[t].id], tasks[t].snap) ]_vars

\* C10 (amended): on false the log is unchanged, and so is the cache unless
\* loadProgress missed it and found the completed session in the table, which
\* it then caches as loaded; on true the session is left running, its other
\* fields those of the loaded snapshot, when the saveProgress call got a user
\* and its insert did not throw, and otherwise the cache is as it was.
C10_ResumeFrameWhenSaved ==
    [][ \A t \in Tasks :
          (Completes(t) /\ tasks'[t].op = "resume")
          => /\ ResumeAnswer(t)
             /\ (tasks'[t].ret = "false") =>
                   /\ logs' = logs
                   /\ tasks'[t].saveCalls = 0
                   /\ IF tasks'[t].queried /\ tasks'[t].found
                      THEN /\ BuiltFromRow(cache'[tasks'[t].id],
                                           LatestRowOf(tasks'[t].id))
                           /\ CachesOnly(tasks'[t].id, cache'[tasks'[t].id])
                      ELSE cache' = cache
             /\ (tasks'[t].ret = "true") =>
                   /\ tasks'[t].saveCalls = 1
                   /\ IF tasks'[t].saved
                      THEN /\ tasks[t].id \in DOMAIN cache'
                           /\ SameButRunning(cache'[tasks[t].id], tasks[t].snap)
                      ELSE cache' = cache ]_vars

\* resumeProcessing has set the paused session of the table running, and
\* refused a completed one
C10_Witness ==
    \E t \in Tasks :
      /\ tasks[t].op = "resume" /\ tasks[t].pc = "done"
      /\ tasks[t].ret = "true" /\ tasks[t].saved
      /\ Len(logs) = 4
      /\ logs[3].details.status = "paused"
      /\ logs[4].details.status = "running"
      /\ cache[tasks[t].id].status = "running"
      /\ cache[tasks[t].id].completedSteps = 1
      /\ cache[tasks[t].id].lastCheckpoint = "security_scan"

----------------------------------------------------------------------------
(* Properties of logComplianceEvent and validateDocumentSecurity *)

\* C11: logComplianceEvent never rejects: whatever the user lookup and the
\* insert do (throw, fail, give no user), a call that has settled has
\* resolved, so the caller's await returns.
C11_ComplianceNeverRejects ==
    /\ sec.out # "rejected"
    /\ (sec.pc = "done") => (sec.out = "resolved")

\* the insert threw and the call resolved all the same
C11_Witness ==
    /\ sec.pc = "done"
    /\ sec.ins = "throw"
    /\ sec.out = "resolved"
    /\ logs = << >>

\* the user_id the claim gives an event, from the userId passed and the user
\* the lookup found
ClaimedUserId(userId, user) ==
    IF userId \notin {Undefined, ""} THEN userId
    ELSE IF user \notin {Undefined, Null} THEN user
    ELSE "system"

\* every row handed to insert carries the claimed user_id, and the table
\* holds no other row
RowsCarryClaimedUser ==
    /\ \A i \in 1 .. Len(sec.attempted) :
         sec.attempted[i].user_id = ClaimedUserId(sec.event.userId, sec.user)
    /\ Len(sec.attempted) <= 1
    /\ logs = (IF sec.ins = "ok" THEN sec.attempted ELSE << >>)

\* C12: the user_id logComplianceEvent stores is the caller's userId when one
\* is given, else the authenticated user's id, else 'system'; and once a call
\* with an explicit userId has settled, a row carrying that userId has been
\* handed to insert, whatever the state of the user lookup.
C12_ActingUser ==
    /\ RowsCarryClaimedUser
    /\ (sec.pc = "done" /\ sec.event.userId = "u9") =>
          /\ Len(sec.attempted) = 1
          /\ sec.attempted[1].user_id = "u9"

\* C12 (amended): the same user_id; the row is handed to insert exactly when
\* the user lookup did not throw (it may have found a user or none), and no
\* insert is made when it threw.
C12_ActingUserUnlessLookupThrows ==
    /\ RowsCarryClaimedUser
    /\ (sec.pc = "done") =>
          IF sec.auth = "throw"
          THEN sec.attempted = << >> /\ logs = << >>
          ELSE /\ Len(sec.attempted) = 1
               /\ (sec.event.userId = "u9") => (sec.attempted[1].user_id = "u9")

\* an explicit userId was stored although the lookup had found another user
C12_Witness ==
    /\ sec.pc = "done"
    /\ sec.auth = "user"
    /\ sec.event.userId = "u9"
    /\ Len(logs) = 1
    /\ logs[1].user_id = "u9"

\* validateDocumentSecurity has returned
Scanned == sec.caller = "validate" /\ sec.pc = "done"

\* C13: validateDocumentSecurity returns riskLevel LOW when the scanner finds
\* no field, MEDIUM when it finds 1 to 5, HIGH when it finds 6 or more, and
\* hasPHI is true exactly when riskLevel is not LOW.
C13_RiskLevel ==
    Scanned =>
      LET n == Len(detectPHI(sec.content))
      IN /\ sec.result.def
         /\ Len(sec.result.phiFields) = n
         /\ (n = 0) => (sec.result.riskLevel = "LOW")
         /\ (n >= 1 /\ n <= 5) => (sec.result.riskLevel = "MEDIUM")
         /\ (n >= 6) => (sec.result.riskLevel = "HIGH")
         /\ sec.result.hasPHI <=> (sec.result.riskLevel # "LOW")

\* five e-mail addresses were found: MEDIUM
C13_Witness ==
    /\ Scanned
    /\ sec.content = Repeated(TextEmail, 5)
    /\ Len(sec.result.phiFields) = 5
    /\ sec.result.riskLevel = "MEDIUM"

\* validateDocumentSecurity made its one logComplianceEvent call, for the
\* event that summarises the returned scan, and returned although the write
\* may have failed
OneScanEvent ==
    LET row == ComplianceRow(sec.event, sec.user)
    IN /\ sec.out = "resolved"
       /\ sec.result.def
       /\ sec.result.phiFields = detectPHI(sec.content)
       /\ row.action = <<"compliance", "phi_detection">>
       /\ row.details["phi_detected"] = sec.result.hasPHI
       /\ row.details["phi_fields_count"] = Len(sec.result.phiFields)
       /\ sec.attempted \in {<< >>, <<row>>}
       /\ (sec.auth # "throw") => (sec.attempted = <<row>>)
       /\ logs = (IF sec.ins = "ok" THEN <<row>> ELSE << >>)

\* the content has exactly one e-mail address
SingleEmail(content) == Len(MatchesFrom("EMAIL", content, 1)) = 1

\* C14: each call of validateDocumentSecurity attempts exactly one compliance
\* event (phi_detection) whose phi_detected is the returned hasPHI and whose
\* phi_fields_count is the number of returned fields, and returns its scan
\* even when the write fails; for content with a single e-mail address the
\* result is hasPHI, MEDIUM, and phi_detected is true.
C14_ScanEvent ==
    Scanned =>
      /\ OneScanEvent
      /\ SingleEmail(sec.content) =>
            /\ sec.result.hasPHI
            /\ sec.result.riskLevel = "MEDIUM"
            /\ sec.event.details.kv["phi_detected"]

\* C14 (amended): the same, the result for content with a single e-mail
\* address being MEDIUM when the scanner finds no more than five fields in it.
C14_ScanEventUpToFiveFields ==
    Scanned =>
      /\ OneScanEvent
      /\ SingleEmail(sec.content) =>
            /\ sec.result.hasPHI
            /\ sec.event.details.kv["phi_detected"]
            /\ sec.result.riskLevel =
                  (IF Len(detectPHI(sec.content)) <= 5 THEN "MEDIUM" ELSE "HIGH")

\* the scan of an e-mail address was returned although the insert threw
C14_Witness ==
    /\ Scanned
    /\ sec.content = TextEmail
    /\ sec.ins = "throw"
    /\ sec.result.hasPHI
    /\ sec.result.riskLevel = "MEDIUM"
    /\ Len(sec.attempted) = 1
    /\ sec.attempted[1].details["phi_detected"]

\* does some pattern match somewhere in a string of the value
RECURSIVE HasMatch(_)
HasMatch(data) ==
    CASE data.kind = "string" ->
           \E k \in 1 .. Len(PatternOrder) : MatchesFrom(PatternOrder[k], data.text, 1) # << >>
      [] data.kind = "array" -> \E i \in 1 .. Len(data.items) : HasMatch(data.items[i])
      [] data.kind = "object" -> \E i \in 1 .. Len(data.items) : HasMatch(data.items[i][2])
      [] OTHER -> FALSE

\* C15: sanitizeForExport is idempotent. With the six patterns applied in the
\* order SSN, PHONE, EMAIL, DATE_OF_BIRTH, MEDICAL_RECORD, HEALTH_CARD, what a
\* first pass returns holds no match of any pattern (neither in a redaction
\* marker nor in the text left), and a second pass returns it unchanged, for
\* strings, arrays, mappings and other scalars alike.
C15_SanitizeIdempotent ==
    /\ PatternOrder = <<"SSN", "PHONE", "EMAIL", "DATE_OF_BIRTH", "MEDICAL_RECORD", "HEALTH_CARD">>
    /\ san.pc \in {"once", "twice"} => ~HasMatch(san.once)
    /\ san.pc = "twice" => san.twice = san.once

\* a mapping holding an e-mail address followed by a domain was exported: the
\* address is redacted, the marker and the domain after it are left alone by
\* the second pass
C15_Witness ==
    /\ san.pc = "twice"
    /\ san.input.kind = "object"
    /\ san.input.items[1][2] = StringValue(TextEmail \o TextDomain)
    /\ san.once.items[1][2] = StringValue(Marker("EMAIL") \o TextDomain)
    /\ san.twice = san.once

\* the step of task t that sets the cache at the end of a saveProgress
CacheSetStep(t) == tasks[t].pc = "set" /\ tasks'[t] # tasks[t] /\ cache' # cache

\* C20: every saveProgress call that changes the cached session (hence every
\* checkpoint and every session creation that does) has also appended one
\* progress_update row carrying the snapshot it caches, and rows are only
\* ever appended to processing_logs.
C20_SaveAppendsRow ==
    [][ /\ \A t \in Tasks :
             CacheSetStep(t) =>
               /\ tasks[t].ins = "ok"
               /\ \E i \in 1 .. Len(logs) : logs[i] = ProgressRow(tasks[t].id, tasks[t].toSave)
        /\ Len(logs') >= Len(logs)
        /\ SubSeq(logs', 1, Len(logs)) = logs ]_vars

----------------------------------------------------------------------------
(* orchestrator properties *)

\* the files of a list whose type is application/pdf, in order
PdfsOf(fileList) == SelectSeq(fileList, LAMBDA file : file.type = "application/pdf")

\* a step of processFiles
BatchDropped == Len(ui'.batches) = Len(ui.batches) + 1

\* C16: for every batch passed to processFiles, a file that is not a PDF gets
\* no queue entry, no processing task and no processing session, and the
\* "Invalid file format" notice is shown (once, and only when the batch holds
\* such a file); every PDF of the batch gets exactly one queue entry and one
\* processing task, started with the id of that entry; sessions are only ever
\* created by the tasks, for the id of a PDF's entry.
C16_BatchStep ==
    BatchDropped =>
      LET fileList == Last(ui'.batches)
          pdfs == PdfsOf(fileList)
          n == Len(ui.files)
          m == Len(ui.runs)
      IN /\ Len(ui'.files) = n + Len(pdfs)
         /\ Len(ui'.runs) = m + Len(pdfs)
         /\ SubSeq(ui'.files, 1, n) = ui.files
         /\ SubSeq(ui'.runs, 1, m) = ui.runs
         /\ \A k \in 1 .. Len(pdfs) :
              /\ ui'.files[n + k].name = pdfs[k].name
              /\ ui'.files[n + k].status = "uploading"
              /\ ~ui'.files[n + k].session
              /\ ui'.runs[m + k].file = pdfs[k]
              /\ ui'.runs[m + k].fileId = ui'.files[n + k].id
              /\ ui'.runs[m + k].pc = "auth"
              /\ ~ui'.runs[m + k].session
         /\ ui'.notices = IF Len(pdfs) # Len(fileList)
                          THEN Append(ui.notices, "Invalid file format") ELSE ui.notices

C16_OnlyPdfsProcessed ==
    /\ \A r \in 1 .. Len(ui.runs) :
         /\ ui.runs[r].file.type = "application/pdf"
         /\ \E k \in 1 .. Len(ui.files) :
              ui.files[k].id = ui.runs[r].fileId /\ ui.files[k].name = ui.runs[r].file.name
    /\ \A k \in 1 .. Len(ui.files) :
         /\ \E b \in 1 .. Len(ui.batches) : \E j \in 1 .. Len(ui.batches[b]) :
              ui.batches[b][j].type = "application/pdf" /\ ui.batches[b][j].name = ui.files[k].name
         /\ ui.files[k].session =>
              \E r \in 1 .. Len(ui.runs) : ui.runs[r].session /\ ui.runs[r].fileId = ui.files[k].id

C16_ProcessFiles == [][C16_BatchStep]_vars /\ []C16_OnlyPdfsProcessed

\* a batch of a PDF and another file was dropped: one entry, one notice, and
\* the one task has created its session
C16_Witness ==
    /\ Len(ui.batches) = 1
    /\ Len(ui.batches[1]) = 2
    /\ ui.batches[1][1].type = "image/png"
    /\ ui.batches[1][2].type = "application/pdf"
    /\ Len(ui.files) = 1 /\ Len(ui.runs) = 1
    /\ ui.files[1].name = ui.batches[1][2].name
    /\ "Invalid file format" = ui.notices[1]
    /\ ui.runs[1].session /\ ui.files[1].session

\* the process-document call did not get the data extracted: the function's
\* extraction step failed, the function answered with an error, or the call threw
ExtractionFailed(run) == run.primary \in {"unextracted", "failed", "throw"}

\* C17: whenever the extraction service fails during the primary
\* process-document call, the fallback path runs, an extraction record with
\* raw_data.fallback = true is inserted, and the file ends with status
\* completed rather than error.
C17_FallbackOnExtractionFailure ==
    \A r \in 1 .. Len(ui.runs) :
      LET run == ui.runs[r]
      IN run.pc = "done" /\ ExtractionFailed(run) =>
           /\ run.fallback
           /\ run.extraction = "fallback"
           /\ run.status = "completed"

\* the writes of upload, document creation and extraction all succeeded or
\* the fallback stood in: the user was found, both retried operations
\* resolved, and either the function answered with success or the call threw
\* and the fallback's own insert did not throw
OperationsSucceeded(run) ==
    /\ run.upload = "ok"
    /\ run.document = "ok"
    /\ \/ run.primary \in {"extracted", "unextracted"}
       \/ run.primary = "throw" /\ run.fallback /\ run.insert # "throw"

\* C18: a failure of an observability write (progress_update save,
\* error_occurred log, compliance event, fallback_processing log row) never
\* puts a file into status error: a task whose upload, document creation and
\* extraction succeeded or were recovered by the fallback ends with its file
\* completed, whatever logging and tracking writes failed.
C18_ObservabilityFailuresInvisible ==
    \A r \in 1 .. Len(ui.runs) :
      LET run == ui.runs[r]
      IN run.pc = "done" /\ OperationsSucceeded(run) =>
           run.status = "completed"

\* the run is inside a checkpoint continuation, at its await of saveProgress
SavePcs == {"save1", "save2", "save3", "save4"}

\* the checkpoint continuations this run invoked that have settled
SettledContinuations(run) == run.continuations - (IF run.pc \in SavePcs THEN 1 ELSE 0)

\* the tasks whose createProcessingSession returned this session id
RunsOn(sid) == { r \in 1 .. Len(ui.runs) : ui.runs[r].session /\ ui.runs[r].sid = sid }

RECURSIVE SettledOn(_)
SettledOn(rs) ==
    IF rs = {} THEN 0
    ELSE LET r == CHOOSE x \in rs : TRUE
         IN SettledContinuations(ui.runs[r]) + SettledOn(rs \ {r})

\* C22 as stated: in every pipeline run, at every point of the run the
\* session's completedSteps is at most totalSteps + 1 and equals the number
\* of checkpoint continuations invoked so far in that run (a continuation
\* still awaiting its save is not counted).
C22_Original ==
    \A r \in 1 .. Len(ui.runs) :
      LET run == ui.runs[r]
      IN run.session /\ run.sid \in DOMAIN ui.cache =>
           /\ ui.cache[run.sid].totalSteps = SessionTotalSteps
           /\ ui.cache[run.sid].completedSteps <= SessionTotalSteps + 1
           /\ ui.cache[run.sid].completedSteps = SettledContinuations(run)

\* every session has totalSteps = 5 and its completedSteps is at most the
\* number of continuations settled on its id, hence at most 4 when one task
\* uses the id
C22_Bound ==
    \A sid \in DOMAIN ui.cache :
      /\ ui.cache[sid].totalSteps = SessionTotalSteps
      /\ ui.cache[sid].completedSteps <= SettledOn(RunsOn(sid))
      /\ Cardinality(RunsOn(sid)) = 1 => ui.cache[sid].completedSteps < SessionTotalSteps

\* a continuation that settles leaves the cache alone or stores, for its own
\* session id, one more than the completedSteps it loaded
C22_Step ==
    \A r \in 1 .. Len(ui.runs) :
      LET run == ui.runs[r]
      IN run.pc \in SavePcs /\ ui'.runs[r] # run =>
           \/ ui'.cache = ui.cache
           \/ /\ DOMAIN ui'.cache = DOMAIN ui.cache
              /\ \A sid \in DOMAIN ui.cache : sid # run.sid => ui'.cache[sid] = ui.cache[sid]
              /\ ui'.cache[run.sid].completedSteps = run.loaded.completedSteps + 1

\* C22: in every pipeline run the session has totalSteps = 5 and its
\* completedSteps never exceeds the number of checkpoint continuations that
\* have settled on its session id; each continuation raises it by one over
\* what it loaded when its save reaches the cache and leaves it alone
\* otherwise, so with one task on the id it is at most 4 <= totalSteps + 1.
C22_CompletedSteps == []C22_Bound /\ [][C22_Step]_vars

\* a run whose four continuations all reached the cache
C22_Witness ==
    /\ Len(ui.runs) = 1
    /\ ui.runs[1].pc = "done" /\ ui.runs[1].continuations = 4
    /\ ui.runs[1].sid \in DOMAIN ui.cache
    /\ ui.cache[ui.runs[1].sid].completedSteps = 4


\* the task of the r-th entry takes a step
RunStep(r) == r <= Len(ui.runs) /\ ui'.runs[r] # ui.runs[r]

\* the session of the k-th entry's task is as it was
SessionKept(k) ==
    ui.runs[k].session =>
      /\ ui.runs[k].sid \in DOMAIN ui.cache <=> ui.runs[k].sid \in DOMAIN ui'.cache
      /\ ui.runs[k].sid \in DOMAIN ui.cache =>
           ui'.cache[ui.runs[k].sid] = ui.cache[ui.runs[k].sid]

\* C23 as stated: a step, failure or completion of one file's task never
\* changes another file's queue entry (status, progress, session) or the
\* completedSteps of another file's session, under every interleaving.
C23_Original ==
    \A r \in 1 .. Len(ui.runs) :
      RunStep(r) =>
        \A k \in 1 .. Len(ui.runs) :
          k # r => ui'.files[k] = ui.files[k] /\ SessionKept(k)

C23_OriginalStep == [][C23_Original]_vars

\* C23: each task only changes the queue entries whose id is its own file id
\* and the session whose id its createProcessingSession returned; so a step,
\* failure or completion of one file's task never changes the status,
\* progress or session of a file with another id, under every interleaving
\* (two files that drew the same id are changed together).
C23_Step ==
    \A r \in 1 .. Len(ui.runs) :
      RunStep(r) =>
        /\ Len(ui'.files) = Len(ui.files)
        /\ \A k \in 1 .. Len(ui.files) :
             ui.files[k].id # ui.runs[r].fileId => ui'.files[k] = ui.files[k]
        /\ DOMAIN ui.cache \subseteq DOMAIN ui'.cache
        /\ \A sid \in DOMAIN ui'.cache :
             sid # ui'.runs[r].sid => sid \in DOMAIN ui.cache /\ ui'.cache[sid] = ui.cache[sid]
        /\ \A k \in 1 .. Len(ui.runs) :
             k # r /\ ui.runs[k].fileId # ui.runs[r].fileId =>
               /\ ui'.files[k] = ui.files[k]
               /\ ui'.runs[k] = ui.runs[k]
               /\ SessionKept(k)

C23_TasksIndependent == [][C23_Step]_vars

\* two files with different ids, the first failed after its session was made
\* and the second completed with all its continuations saved
C23_Witness ==
    /\ Len(ui.runs) = 2
    /\ ui.runs[1].fileId # ui.runs[2].fileId
    /\ ui.runs[1].session /\ ui.runs[2].session
    /\ ui.runs[1].pc = "done" /\ ui.files[1].status = "error"
    /\ ui.runs[1].sid \in DOMAIN ui.cache
    /\ ui.cache[ui.runs[1].sid].completedSteps = 1
    /\ ui.runs[2].pc = "done" /\ ui.files[2].status = "completed"
    /\ ui.files[2].progress = 100
    /\ ui.runs[2].sid \in DOMAIN ui.cache
    /\ ui.cache[ui.runs[2].sid].completedSteps = 4


\* C26: throughout and after every pipeline run, whether the file ends
\* completed or error, the session's status stays running: every session the
\* orchestrator's tasks wrote, through createProcessingSession and the
\* checkpoint continuations, has status running and never completed, failed
\* or paused.
C26_SessionsStayRunning ==
    /\ \A sid \in DOMAIN ui.cache : ui.cache[sid].status = "running"
    /\ \A r \in 1 .. Len(ui.runs) :
         ui.runs[r].pc \in SavePcs => ui.runs[r].loaded.status = "running"

\* a file that ended completed, its session at the last checkpoint and
\* still running
C26_Witness ==
    /\ Len(ui.runs) = 1
    /\ ui.runs[1].pc = "done" /\ ui.files[1].status = "completed"
    /\ ui.runs[1].sid \in DOMAIN ui.cache
    /\ ui.cache[ui.runs[1].sid].lastCheckpoint = "processing_completed"
    /\ ui.cache[ui.runs[1].sid].status = "running"


\* the moves of a queue entry's status
StatusMoves ==
    { <<"uploading", "processing">>, <<"processing", "completed">>,
      <<"uploading", "error">>, <<"processing", "error">> }

\* what a step does to the k-th entry
EntryStep(k) ==
    /\ \/ ui'.files[k].status = ui.files[k].status
       \/ <<ui.files[k].status, ui'.files[k].status>> \in StatusMoves
    /\ ui'.files[k].progress >= ui.files[k].progress

EntryFull(k) == ui.files[k].progress = 100 => ui.files[k].status = "completed"

\* no other entry of the queue has the k-th entry's id
OwnId(k) == \A j \in 1 .. Len(ui.files) : j # k => ui.files[j].id # ui.files[k].id

\* C28 as stated: each file's queue status moves only uploading ->
\* processing -> completed or from uploading/processing -> error, completed
\* and error are final, its progress never decreases, and progress is 100
\* only when status is completed.
C28_Original ==
    /\ [][\A k \in 1 .. Len(ui.files) : EntryStep(k)]_vars
    /\ [](\A k \in 1 .. Len(ui.files) : EntryFull(k))

\* C28: the queue status of a file whose id no other entry shares moves only
\* uploading -> processing -> completed or from uploading/processing ->
\* error; completed and error are final, whatever the closing
\* compliance-event write does; its progress never decreases and is 100 only
\* when its status is completed.
C28_QueueStatus ==
    /\ [][\A k \in 1 .. Len(ui.files) : OwnId(k) => EntryStep(k)]_vars
    /\ [](\A k \in 1 .. Len(ui.files) : OwnId(k) => EntryFull(k))

\* two files with ids of their own: one failed at its processing step with
\* progress 60, the other completed
C28_Witness ==
    /\ Len(ui.files) = 2 /\ OwnId(1)
    /\ ui.files[1].status = "error" /\ ui.files[1].progress = 60
    /\ ui.runs[2].pc = "done"
    /\ ui.files[2].status = "completed" /\ ui.files[2].progress = 100


\* the r-th task has run to its end and its file stands completed or error
TaskEnded(r) ==
    /\ r <= Len(ui.runs)
    /\ ui.runs[r].pc = "done"
    /\ ui.files[r].status \in {"completed", "error"}

\* the retried operations are at one of their first maxAttempts attempts,
\* and a task that invoked the fallback is past the point where it is invoked
C25_Bounded ==
    \A r \in 1 .. Len(ui.runs) :
      /\ ui.runs[r].attempt \in 1 .. PipelineMaxAttempts
      /\ ui.runs[r].fallback =>
           ui.runs[r].pc \in {"fallbackLog", "fallbackInsert", "logFallback",
                              "checkpoint4", "save4", "compliance", "done"}

\* C25: every started file task eventually reaches status completed or
\* error, provided each external call it awaits eventually returns or throws:
\* the retry loops are bounded by maxAttempts, the fallback runs at most
\* once, and no step waits on another file's task.
C25_TasksEnd ==
    /\ []C25_Bounded
    /\ []<>(\A r \in 1 .. Len(ui.runs) : TaskEnded(r))

\* both tasks of a batch have ended, the first completed through the
\* fallback and the second in error after the third attempt of its upload
C25_Witness ==
    /\ Len(ui.runs) = 2
    /\ TaskEnded(1) /\ TaskEnded(2)
    /\ ui.runs[1].fallback /\ ui.files[1].status = "completed"
    /\ ui.runs[2].upload = "rejected" /\ ui.files[2].status = "error"


\* the cache entry of id is new or not what it was
CacheWritten(id) == id \in DOMAIN cache' /\ (id \in DOMAIN cache => cache'[id] # cache[id])

\* the saveProgress call of task t on id completes: the cache holds the
\* snapshot it was passed, every field of it
SaveCompletes(t, id) ==
    /\ tasks[t].pc = "set" /\ tasks'[t] # tasks[t]
    /\ tasks[t].id = id
    /\ cache'[id] = tasks[t].toSave

\* the query of task t's loadProgress on id settles: the cache holds the
\* session of the newest row, every field of it
LoadCaches(t, id) ==
    /\ tasks[t].pc = "query" /\ tasks'[t] # tasks[t]
    /\ tasks[t].id = id
    /\ MatchingRows(id) # {}
    /\ cache'[id] = RowSession(logs[PickedRow(id)])

\* C24 as stated: after any interleaving of operations on one id the cached
\* session equals in every field the snapshot passed to the save that
\* completed last: once an id is cached, its entry changes only as a save on
\* that id completes, to that save's snapshot.
C24_OnlySavesWrite ==
    \A id \in Ids :
      CacheWritten(id) =>
        \/ \E t \in Tasks : SaveCompletes(t, id)
        \/ id \notin DOMAIN cache /\ \E t \in Tasks : LoadCaches(t, id)

SameLoaded(t, u) ==
    /\ t # u
    /\ tasks[t].op = "checkpoint" /\ tasks[u].op = "checkpoint"
    /\ tasks[t].id = tasks[u].id
    /\ tasks[t].pc = "set" /\ tasks[u].pc \in {"auth", "insert", "set"}
    /\ tasks[t].toSave.completedSteps = tasks[u].toSave.completedSteps

\* C24: writers to one session id are last-write-wins on whole snapshots:
\* every change of a cache entry stores, in every field, either the snapshot
\* passed to a save on that id as that save completes or the session a
\* loadProgress that missed the cache read from the newest row, never a
\* field-wise mixture of two snapshots; and when of two checkpoint
\* continuations that started from the same loaded snapshot one completes
\* its save, the cached completedSteps is the value the other is about to
\* store as well, so both together raise it by 1, not 2.
C24_Step ==
    /\ \A id \in Ids :
         CacheWritten(id) =>
           \E t \in Tasks : SaveCompletes(t, id) \/ LoadCaches(t, id)
    /\ \A t, u \in Tasks :
         SameLoaded(t, u) /\ tasks'[t] # tasks[t] /\ cache' # cache =>
           /\ cache'[tasks[t].id].completedSteps = tasks[u].toSave.completedSteps
           /\ "completed_steps" \notin tasks[t].toSave.bad =>
                tasks[u].toSave.completedSteps = tasks[t].snap.completedSteps + 1

FailedCreate(c) == tasks[c].op = "create" /\ tasks[c].pc = "done" /\ ~tasks[c].saved

\* loadProgress(id) would give null: nothing cached, and no row or a newest
\* row that does not pass the type checks
NoSession(id) ==
    /\ id \notin DOMAIN cache
    /\ MatchingRows(id) # {} => ~isProgressDetails(logs[PickedRow(id)].details)

\* C27 as stated: after a createProcessingSession whose saveProgress failed
\* before the insert the returned id has no session (loadProgress gives
\* null), and every checkpoint continuation and resumeProcessing on that id
\* is a no-op that calls no save.
C27_Original ==
    \A c \in Tasks :
      FailedCreate(c) =>
        /\ NoSession(tasks[c].id)
        /\ \A t \in Tasks :
             tasks[t].op \in {"checkpoint", "resume"} /\ tasks[t].id = tasks[c].id =>
               ~tasks[t].found /\ tasks[t].saveCalls = 0

\* the saveProgress of task t fails at this step before its insert has stored
\* a row: getUser gives no user or throws, or the insert throws
SaveFails(t) ==
    \/ tasks[t].pc = "auth" /\ tasks'[t].pc = "done"
    \/ tasks[t].pc = "insert" /\ tasks'[t].pc = "set" /\ tasks'[t].ins = "throw"
    \/ tasks[t].pc = "set" /\ tasks[t].ins = "throw" /\ tasks'[t].pc = "done"

\* the loadProgress of a continuation or of resumeProcessing settles
LoadSettles(t) ==
    /\ tasks[t].op \in {"checkpoint", "resume"}
    /\ tasks[t].pc = "query" /\ tasks'[t] # tasks[t]

\* C27: a saveProgress that fails before the insert (no authenticated user,
\* or a thrown lookup or insert) leaves both the cache and the log store
\* unchanged; hence after createProcessingSession under such a failure the
\* returned id has a session only if another save stored one under that id,
\* and while the id has neither a row nor a cache entry every checkpoint
\* continuation and resumeProcessing on it is a no-op that writes nothing and
\* creates no session.
C27_Step ==
    \A t \in Tasks :
      /\ SaveFails(t) => cache' = cache /\ logs' = logs
      /\ \A c \in Tasks :
           /\ FailedCreate(c) /\ tasks[t].id = tasks[c].id
           /\ LoadSettles(t)
           /\ tasks[t].id \notin DOMAIN cache /\ MatchingRows(tasks[t].id) = {}
           => /\ cache' = cache /\ logs' = logs
              /\ tasks'[t].pc = "done" /\ ~tasks'[t].found /\ tasks'[t].saveCalls = 0
              /\ tasks'[t].ret = IF tasks[t].op = "resume" THEN "false" ELSE Undefined

C27_FailedSave == [][C27_Step]_vars

\* a createProcessingSession failed on an id nobody else saved, and a
\* checkpoint continuation on that id then found nothing and saved nothing
C27_Witness ==
    \E c, t \in Tasks :
      /\ FailedCreate(c)
      /\ tasks[t].op = "checkpoint" /\ tasks[t].pc = "done"
      /\ tasks[t].id = tasks[c].id
      /\ tasks[t].queried /\ ~tasks[t].found /\ tasks[t].saveCalls = 0
      /\ cache = << >> /\ logs = << >>



----------------------------------------------------------------------------
\* the response with success: true has been returned
RespondedTrue == fn.pc = "responded" /\ fn.response = "true"
\* the response with success: false has been returned
RespondedFalse == fn.pc = "responded" /\ fn.response = "false"

\* success = true: the extraction is stored, the document is completed and
\* the last row of the log is processing_completed
SuccessMeansCompleted ==
    RespondedTrue =>
        /\ fn.extraction.stored
        /\ fn.upload_status = "completed"
        /\ Len(fn.rows) > 0
        /\ fn.rows[Len(fn.rows)] = "processing_completed"

\* success = false takes more than a failure of Parseur or of OpenAI
ServicesMayFail ==
    /\ RespondedFalse => ~(fn.failed \subseteq {"parseur", "openai"})
    /\ RespondedTrue /\ "parseur" \in fn.failed => fn.extraction.raw_data = "null"
    /\ RespondedTrue /\ "openai" \in fn.failed => fn.extraction.processed_data = "null"

\* OpenAI is called only with the data of Parseur
OpenaiNeedsData == fn.openaiCalled => fn.parseurCalled /\ fn.extractedData = "data"

\* a failed insert of the extraction: success = false and the document left
\* at processing
FailedExtractionLeavesProcessing ==
    "extraction" \in fn.failed => RespondedFalse /\ fn.upload_status = "processing"

============================================================================
